---- MODULE Spec2Model ----
(***************************************************************************)
(* The physical layer of squeak: the database object (db.rs), its page     *)
(* store (shared_append_map.rs), the 100-byte file header (header.rs) and  *)
(* the transactional overlay (transaction.rs); the B-tree pages and their  *)
(* table and index iterators (btree/mod.rs, btree/iter.rs); and the schema *)
(* layer that creates, writes and reads tables (schema/mod.rs, range.rs).  *)
(*                                                                         *)
(* A page is abstracted to a record                                        *)
(*     [len  |-> number of bytes,                                          *)
(*      head |-> the first HEADER_SIZE bytes, as the tuple of the header   *)
(*               words the code reads and writes,                          *)
(*      body |-> the bytes after the file header: the B-tree page header   *)
(*               fields and the cells appended to the page].               *)
(* The backing file is the sequence of its pages.  Another process may     *)
(* rewrite the file while no transaction is open; it bumps the file change *)
(* counter whenever it does.                                               *)
(***************************************************************************)
EXTENDS Integers, Sequences, FiniteSets, TLC

\* ------------------------------------------------------------- bounds
MaxPage == 2        \* largest page number a database or a file grows to
MaxCounter == 2     \* largest file change counter the other process reaches
NumReaders == 2     \* concurrent callers of DB::page
MaxRowId == 5       \* largest row id a table holds
MaxKeys == 7        \* most keys an index holds
MaxRootPage == 4    \* largest page number create_table allocates
MaxInserts == 3     \* most rows inserted
MaxTxns == 2        \* transactions begun on the schema layer

\* ------------------------------------------------- program constants
HEADER_SIZE == 100
PAGE_SIZE_UNIT == 256
DEFAULT_PAGE_SIZE == 16
LEAF_TABLE == 13
MIN_PAGE_SIZE == 512

PageNums == 0..(MaxPage + 1)
Readers == 1..NumReaders
RowIds == 1..MaxRowId
LeafCaps == {1, 2, MaxRowId}    \* cells per leaf of the trees read
Fanouts == {2, 3}               \* children per interior page of the trees read
IndexLeafCaps == {1, 2}         \* keys per leaf of the index trees read

VARIABLES
    hasFile,    \* DB.file is Some
    disk,       \* the backing file: the sequence of its pages
    pages,      \* DB.pages: the page store, page number -> page
    header,     \* DB.header
    rw,         \* holder of the page store's RwLock write guard, 0 when free
    fmutex,     \* holder of the Mutex<File> guard, 0 when free
    txOpen,     \* a Transaction borrows the database
    txn,        \* the Transaction's fields
    pc, key, buf, ret,   \* per reader: position in DB::page, argument, read buffer, result
    panicked,   \* the last call panicked (unwrap, todo!, debug_assert!)
    returned,   \* history: what new_page returned, when it was the last call
    shadow,     \* history: bytes last written through each dirty copy
    invalidated, \* history: the open transaction began by clearing the page cache
    allocs,     \* history: new_page calls of the open transaction
    committed,  \* history: what the last commit published
    inserts,    \* history: VacantEntry::insert calls per page since the store was created
    btree,      \* the pages of one B-tree, decoded: page number -> B-tree page
    rootpage,   \* TableHandle.rootpage of the table or index being read
    entries,    \* the BTreeTableEntries / BTreeIndexEntries iterator, when one is open
    query,      \* the TableHandle call that opened the iterator
    yielded,    \* history: the items next() has returned so far
    ledger,     \* history: what the open, or the last, schema transaction did
    saved,      \* the file DB::save_as wrote, and what became of it
    codec,      \* a value on its way through the byte-level encoders and decoders
    ended       \* history: next() has returned None

dbVars == <<hasFile, disk, pages, header>>
lockVars == <<rw, fmutex>>
txVars == <<txOpen, txn>>
readerVars == <<pc, key, buf, ret>>
histVars == <<returned, shadow, invalidated, allocs, committed, inserts>>
scanVars == <<btree, rootpage, entries, query, yielded, ended, ledger, saved, codec>>
vars == <<dbVars, lockVars, txVars, readerVars, panicked, histVars, scanVars>>

\* ------------------------------------------------------------ helpers
EmptyMap == [x \in {} |-> x]
Put(m, k, v) == [x \in (DOMAIN m) \cup {k} |-> IF x = k THEN v ELSE m[x]]

ZeroHead == <<0, 0, 0, 0, 0>>
\* The body of a page: the fields of its BTreePageHeader and the cells written
\* into it, each with the offset and length of its bytes.  A zeroed buffer
\* has flags 0; bytes that are not a B-tree page are a body whose flags is
\* a token that is no page type.
ZeroBody == [flags |-> 0, cell_count |-> 0, cell_content_start |-> 0, cells |-> << >>]
Stamp(token) == [ZeroBody EXCEPT !.flags = token]
ZeroPage(len) == [len |-> len, head |-> ZeroHead, body |-> ZeroBody]
NoPage == [len |-> 0, head |-> ZeroHead, body |-> ZeroBody]

Ok(p) == [ok |-> TRUE, err |-> "", page |-> p]
Err(e) == [ok |-> FALSE, err |-> e, page |-> NoPage]
BoundsError == Err("page number out of bounds")
IoError == Err("failed to fill whole buffer")

\* ------------------------------------------------------------- header
\* Header is a zerocopy struct: its bytes are its fields, in declaration order.
as_bytes(h) ==
    <<h.page_size, h.file_change_counter, h.database_size,
      h.freelist_head, h.freelist_count>>

read_from(b) ==
    [page_size |-> b[1], file_change_counter |-> b[2], database_size |-> b[3],
     freelist_head |-> b[4], freelist_count |-> b[5]]

\* AsBytes::write_to_prefix: copies the header over the first HEADER_SIZE
\* bytes of the buffer; does nothing (None) when the buffer is shorter.
write_to_prefix(h, page) ==
    IF page.len < HEADER_SIZE THEN page ELSE [page EXCEPT !.head = as_bytes(h)]

Header_default ==
    [page_size |-> DEFAULT_PAGE_SIZE, file_change_counter |-> 1,
     database_size |-> 1, freelist_head |-> 0, freelist_count |-> 0]

page_size(h) == h.page_size * PAGE_SIZE_UNIT

\* Header::read: seek to 0 and read HEADER_SIZE bytes of the file.
Header_read(file) == read_from(file[1].head)

\* ------------------------------------------------------ the page store
\* SharedAppendMap::entry: Occupied(&value) or Vacant.
entry_never_occupied(store, k) == [occupied |-> FALSE, value |-> NoPage]

entry(store, k) ==
    IF k \in DOMAIN store THEN [occupied |-> TRUE, value |-> store[k]]
    ELSE [occupied |-> FALSE, value |-> NoPage]

\* The VacantEntry returned by entry() owns the write guard: the lock stays
\* with the caller r until the entry is inserted or dropped.
VacantEntry_guard_dropped(r) == 0
VacantEntry_guard(r) == r

\* VacantEntry::insert: old = inner.insert(key, ptr); debug_assert!(old.is_none()).
VacantEntry_insert(store, k, v) ==
    [pages |-> Put(store, k, v), old_is_none |-> k \notin DOMAIN store]

\* SharedAppendMap::insert_or_replace
insert_or_replace(store, k, v) == Put(store, k, v)

\* SharedAppendMap::get_mut(&key).is_some()
get_mut_is_some(store, k) == k \in DOMAIN store

\* BTreePageMut::empty, then the drop of the view, which writes the header:
\* no cells, the cell content area starts at the end of the page (as a u16).
BTreePageMut_empty(page_type_, page) ==
    [page EXCEPT !.body = [flags |-> page_type_, cell_count |-> 0,
                           cell_content_start |-> page.len % 65536,
                           cells |-> << >>]]

\* ----------------------------------------------------------- database
DB_new_first_page ==
    BTreePageMut_empty(LEAF_TABLE,
        write_to_prefix(Header_default, ZeroPage(page_size(Header_default))))

in_bounds(hdr, n) == 1 <= n /\ n <= hdr.database_size

\* file.seek((n - 1) * page_size); file.read_exact(&mut page)
file_read(file, hdr, n) ==
    IF n <= Len(file) /\ file[n].len = page_size(hdr) THEN Ok(file[n]) ELSE IoError

\* DB::page run without interleaving (the caller holds the database exclusively).
DB_page(store, hdr, hasF, file, n) ==
    LET e == entry(store, n) IN
    IF e.occupied THEN [res |-> Ok(e.value), pages |-> store, inserted |-> FALSE]
    ELSE IF ~in_bounds(hdr, n)
        THEN [res |-> BoundsError, pages |-> store, inserted |-> FALSE]
    ELSE LET rd == IF hasF THEN file_read(file, hdr, n) ELSE Ok(ZeroPage(page_size(hdr))) IN
        IF ~rd.ok THEN [res |-> rd, pages |-> store, inserted |-> FALSE]
        ELSE [res |-> rd, pages |-> VacantEntry_insert(store, n, rd.page).pages,
              inserted |-> TRUE]

\* DB::clear_cache
clear_cache(store, hasF) == IF hasF THEN EmptyMap ELSE store

\* DB::save_as, the loop: write_all appends self.page(n) for n in
\* 1..=database_size to the created file and stops at the first error
RECURSIVE write_pages(_, _, _, _, _, _)
write_pages(store, hdr, hasF, file, n, out) ==
    IF n > hdr.database_size THEN [ok |-> TRUE, file |-> out, pages |-> store]
    ELSE LET r == DB_page(store, hdr, hasF, file, n) IN
         IF ~r.res.ok THEN [ok |-> FALSE, file |-> out, pages |-> r.pages]
         ELSE write_pages(r.pages, hdr, hasF, file, n + 1, Append(out, r.res.page))

\* save_as copying the pages of the backing file, the page cache left aside
save_as_skips_cache(store, hdr, hasF, file) ==
    write_pages(EmptyMap, hdr, hasF, file, 1, << >>)

\* DB::save_as: File::create, then the loop
save_as(store, hdr, hasF, file) == write_pages(store, hdr, hasF, file, 1, << >>)

\* -------------------------------------------------------- transaction
NoTxn == [database_size |-> 0, freelist_head |-> 0, freelist_count |-> 0,
          dirty_pages |-> EmptyMap]

\* DB::begin_transaction
begin_transaction_keeps_cache(store, hdr, hasF, file) ==
    LET new_header == IF hasF THEN Header_read(file) ELSE hdr
        cleared == hasF /\ new_header.file_change_counter # hdr.file_change_counter
    IN [pages |-> store,
        header |-> new_header,
        cleared |-> cleared,
        txn |-> [database_size |-> new_header.database_size,
                 freelist_head |-> new_header.freelist_head,
                 freelist_count |-> new_header.freelist_count,
                 dirty_pages |-> EmptyMap]]

begin_transaction(store, hdr, hasF, file) ==
    LET new_header == IF hasF THEN Header_read(file) ELSE hdr
        cleared == hasF /\ new_header.file_change_counter # hdr.file_change_counter
    IN [pages |-> IF cleared THEN clear_cache(store, hasF) ELSE store,
        header |-> new_header,
        cleared |-> cleared,
        txn |-> [database_size |-> new_header.database_size,
                 freelist_head |-> new_header.freelist_head,
                 freelist_count |-> new_header.freelist_count,
                 dirty_pages |-> EmptyMap]]

\* impl ReadDB for Transaction: page
Transaction_page(t, store, hdr, hasF, file, n) ==
    IF n \in DOMAIN t.dirty_pages
    THEN [res |-> Ok(t.dirty_pages[n]), pages |-> store, inserted |-> FALSE]
    ELSE DB_page(store, hdr, hasF, file, n)

\* Transaction::page_mut
page_mut_steals(t, store, hdr, hasF, file, n) ==
    IF n \in DOMAIN t.dirty_pages
    THEN [res |-> Ok(t.dirty_pages[n]), txn |-> t, pages |-> store, inserted |-> FALSE]
    ELSE LET r == DB_page(store, hdr, hasF, file, n) IN
        IF ~r.res.ok
        THEN [res |-> r.res, txn |-> t, pages |-> r.pages, inserted |-> r.inserted]
        ELSE [res |-> r.res,
              txn |-> [t EXCEPT !.dirty_pages = Put(t.dirty_pages, n, r.res.page)],
              pages |-> [x \in (DOMAIN r.pages) \ {n} |-> r.pages[x]],
              inserted |-> r.inserted]

page_mut_recopy(t, store, hdr, hasF, file, n) ==
    LET r == DB_page(store, hdr, hasF, file, n) IN
    IF ~r.res.ok THEN [res |-> r.res, txn |-> t, pages |-> r.pages, inserted |-> r.inserted]
    ELSE [res |-> r.res,
          txn |-> [t EXCEPT !.dirty_pages = Put(t.dirty_pages, n, r.res.page)],
          pages |-> r.pages, inserted |-> r.inserted]

page_mut(t, store, hdr, hasF, file, n) ==
    IF n \in DOMAIN t.dirty_pages
    THEN [res |-> Ok(t.dirty_pages[n]), txn |-> t, pages |-> store, inserted |-> FALSE]
    ELSE LET r == DB_page(store, hdr, hasF, file, n) IN
        IF ~r.res.ok
        THEN [res |-> r.res, txn |-> t, pages |-> r.pages, inserted |-> r.inserted]
        ELSE [res |-> r.res,
              txn |-> [t EXCEPT !.dirty_pages = Put(t.dirty_pages, n, r.res.page)],
              pages |-> r.pages, inserted |-> r.inserted]

\* freelist::pop_page: Ok(None) on an empty freelist, todo!() otherwise.
pop_page_panics(t) == t.freelist_count # 0

\* Transaction::new_page, past the freelist: (page_number, page) and the transaction.
new_page(t, hdr) ==
    LET page_number == t.database_size + 1
        dirty == IF page_number \in DOMAIN t.dirty_pages THEN t.dirty_pages
                 ELSE Put(t.dirty_pages, page_number, ZeroPage(page_size(hdr)))
    IN [page_number |-> page_number, page |-> dirty[page_number],
        txn |-> [t EXCEPT !.dirty_pages = dirty, !.database_size = page_number]]

\* Transaction::commit
commit_stale_header(t, store, hdr) ==
    LET published == [x \in (DOMAIN store) \cup (DOMAIN t.dirty_pages) |->
                        IF x \in DOMAIN t.dirty_pages THEN t.dirty_pages[x] ELSE store[x]]
        h == [hdr EXCEPT !.database_size = t.database_size,
                         !.freelist_head = t.freelist_head,
                         !.freelist_count = t.freelist_count]
    IN IF ~get_mut_is_some(published, 1)
       THEN [pages |-> published, header |-> h, panicked |-> TRUE]
       ELSE [pages |-> [published EXCEPT ![1] = write_to_prefix(hdr, published[1])],
             header |-> h, panicked |-> FALSE]

commit(t, store, hdr) ==
    LET published == [x \in (DOMAIN store) \cup (DOMAIN t.dirty_pages) |->
                        IF x \in DOMAIN t.dirty_pages THEN t.dirty_pages[x] ELSE store[x]]
        h == [hdr EXCEPT !.database_size = t.database_size,
                         !.freelist_head = t.freelist_head,
                         !.freelist_count = t.freelist_count]
    IN IF ~get_mut_is_some(published, 1)
       THEN [pages |-> published, header |-> h, panicked |-> TRUE]
       ELSE [pages |-> [published EXCEPT ![1] = write_to_prefix(h, published[1])],
             header |-> h, panicked |-> FALSE]

\* --------------------------------------------------------------- state
NoCommit == [attempted |-> FALSE, returned |-> FALSE, txn |-> NoTxn, before |-> EmptyMap]
NoInserts == [n \in PageNums |-> 0]
NoReturn == [valid |-> FALSE, page_number |-> 0, page |-> NoPage]
Unit == Ok(NoPage)

\* What the caller does with a returned &mut [u8]: nothing, or it writes the
\* body.  The physical layer never looks into a body, so one written token,
\* distinct from a zeroed body and from LEAF_TABLE, stands for any bytes.
ApplyWrite(page, w) == IF w THEN [page EXCEPT !.body = Stamp(1)] ELSE page
Writes == BOOLEAN

FilePageSizes == {MIN_PAGE_SIZE \div PAGE_SIZE_UNIT}

\* the files opened: the schema page alone, or with one table's root page
FileSizes == {1, 2}

\* a well-formed file of size pages: the schema page, then table roots
InitialFile(ps, size) ==
    LET h == [Header_default EXCEPT !.page_size = ps, !.database_size = size] IN
    [n \in 1..size |->
        BTreePageMut_empty(LEAF_TABLE,
            IF n = 1 THEN write_to_prefix(h, ZeroPage(page_size(h)))
            ELSE ZeroPage(page_size(h)))]

\* ------------------------------------------------------------ B-tree pages
\* A B-tree page is abstracted to [flags, cells, right_most_pointer]: the
\* page type byte, the cells in cell pointer order, and the pointer kept in
\* the last four bytes of an interior page header.
INTERIOR_INDEX == 2
INTERIOR_TABLE == 5
LEAF_INDEX == 10

None == [is_some |-> FALSE, value |-> 0]
Some(v) == [is_some |-> TRUE, value |-> v]

\* std::ops::Bound
Unbounded == [kind |-> "Unbounded", value |-> 0]
Included(v) == [kind |-> "Included", value |-> v]
Excluded(v) == [kind |-> "Excluded", value |-> v]

Min(S) == CHOOSE x \in S : \A y \in S : x <= y
Max(S) == CHOOSE x \in S : \A y \in S : x >= y

\* BTreePage::new: db.page(page_number)?
BTreePage_new(tree, n) == n \in DOMAIN tree
page_type(tree, p) == tree[p].flags
cell_count(tree, p) == Len(tree[p].cells)
\* cell_pointer: assert!(cell_index < self.cell_count())
cell_pointer_ok(tree, p, i) == i < cell_count(tree, p)
\* (row_id, payload) of cell i, counted from 0
leaf_table_cell(tree, p, i) == tree[p].cells[i + 1]
\* (left_child, row_id) of cell i, counted from 0
interior_table_cell(tree, p, i) == tree[p].cells[i + 1]

\* for index in 0..cell_count { if !passes(cell) { break } ... }: how many cells
\* the loop passes before it breaks
LeadingCount(passes) ==
    LET stops == {i \in 1..Len(passes) : ~passes[i]} IN
    IF stops = {} THEN Len(passes) ELSE Min(stops) - 1
\* ... { found = index }: the index (from 0) of the last cell passed, 0 if none
LastLeading(passes) ==
    LET c == LeadingCount(passes) IN IF c = 0 THEN 0 ELSE c - 1

\* ------------------------------------------------ the table iterator
\* BTreeTableEntries::new
BTreeTableEntries_new(root) ==
    [page |-> root, index |-> 0, stack |-> << >>, max_row_id |-> None]

SeekOk(e) == [entries |-> e, outcome |-> "ok"]
SeekErr(e) == [entries |-> e, outcome |-> "err"]
SeekPanic(e) == [entries |-> e, outcome |-> "panic"]

\* BTreeTableEntries::seek
RECURSIVE BTreeTableEntries_seek(_, _, _)
BTreeTableEntries_seek(tree, e, row_id) ==
    LET p == e.page
        NotAfter == [i \in 1..Len(tree[p].cells) |-> ~(tree[p].cells[i].row_id > row_id)]
    IN
    IF page_type(tree, p) = INTERIOR_TABLE
    THEN LET child_page_index == LeadingCount(NotAfter) IN
         IF ~cell_pointer_ok(tree, p, child_page_index) THEN SeekPanic(e)
         ELSE LET child == interior_table_cell(tree, p, child_page_index).left_child IN
              IF ~BTreePage_new(tree, child) THEN SeekErr(e)
              ELSE BTreeTableEntries_seek(tree,
                        [e EXCEPT !.page = child,
                                  !.stack = Append(@, <<p, child_page_index + 1>>)],
                        row_id)
    ELSE IF page_type(tree, p) = LEAF_TABLE
    THEN SeekOk([e EXCEPT !.index = LastLeading(NotAfter)])
    ELSE SeekPanic(e)

\* BTreeTableEntries::with_range(page, start..end)
BTreeTableEntries_with_range(tree, root, start, end) ==
    LET e == BTreeTableEntries_new(root)
        s == IF start.is_some THEN BTreeTableEntries_seek(tree, e, start.value)
             ELSE SeekOk(e)
    IN [s EXCEPT !.entries.max_row_id = end]

\* what next() returns: None, Some(Ok((row_id, record))), Some(Err(_)), or a panic
ItemNone == [kind |-> "None", row_id |-> 0, payload |-> 0]
ItemErr == [kind |-> "Err", row_id |-> 0, payload |-> 0]
ItemPanic == [kind |-> "Panic", row_id |-> 0, payload |-> 0]
ItemOk(row_id, record) == [kind |-> "Some", row_id |-> row_id, payload |-> record]

\* the cell a leaf yields at its cursor
leaf_cell_mirrored(tree, p, i) == leaf_table_cell(tree, p, cell_count(tree, p) - 1 - i)
leaf_cell_at(tree, p, i) == leaf_table_cell(tree, p, i)

\* <BTreeTableEntries as Iterator>::next
RECURSIVE BTreeTableEntries_next(_, _)
BTreeTableEntries_next(tree, e) ==
    IF e.index < cell_count(tree, e.page)
    THEN IF page_type(tree, e.page) = INTERIOR_TABLE
         THEN LET child == interior_table_cell(tree, e.page, e.index).left_child
                  advanced == [e EXCEPT !.index = @ + 1]
              IN IF ~BTreePage_new(tree, child)
                 THEN [entries |-> advanced, item |-> ItemErr]
                 ELSE BTreeTableEntries_next(tree,
                        [e EXCEPT !.page = child, !.index = 0,
                                  !.stack = Append(@, <<e.page, e.index + 1>>)])
         ELSE IF page_type(tree, e.page) = LEAF_TABLE
         THEN LET cell == leaf_cell_at(tree, e.page, e.index)
                  advanced == [e EXCEPT !.index = @ + 1]
              IN IF e.max_row_id.is_some /\ cell.row_id >= e.max_row_id.value
                 THEN [entries |-> advanced, item |-> ItemNone]
                 ELSE [entries |-> advanced, item |-> ItemOk(cell.row_id, cell.payload)]
         ELSE [entries |-> e, item |-> ItemPanic]
    ELSE IF Len(e.stack) > 0
    THEN LET popped == e.stack[Len(e.stack)] IN
         BTreeTableEntries_next(tree,
            [e EXCEPT !.page = popped[1], !.index = popped[2],
                      !.stack = SubSeq(@, 1, Len(@) - 1)])
    ELSE [entries |-> e, item |-> ItemNone]

\* everything an unbounded scan of the tree yields, in order
RECURSIVE Collect(_, _)
Collect(tree, e) ==
    LET r == BTreeTableEntries_next(tree, e) IN
    IF r.item.kind = "Some" THEN <<r.item>> \o Collect(tree, r.entries) ELSE << >>

\* the item that ends the scan: None, an error or a panic
RECURSIVE LastItem(_, _)
LastItem(tree, e) ==
    LET r == BTreeTableEntries_next(tree, e) IN
    IF r.item.kind = "Some" THEN LastItem(tree, r.entries) ELSE r.item

\* ------------------------------------------------ the index iterator
\* An index payload is abstracted to its sort key, a positive number; the
\* empty byte string is EMPTY_PAYLOAD.
EMPTY_PAYLOAD == 0
GARBAGE_PAYLOAD == -1

\* leaf_index_cell: the payload of cell i, counted from 0
leaf_index_cell(tree, p, i) == tree[p].cells[i + 1].payload

\* the first byte of the big-endian child page number that starts the cell
child_first_byte(child) == (child \div 16777216) % 256
\* interior_index_cell: the child is read from the first four bytes without
\* consuming them, then the payload size varint is read from the same first
\* byte and the payload is cut from the bytes after it.
interior_index_cell(tree, p, i) ==
    LET cell == tree[p].cells[i + 1] IN
    [left_child |-> cell.left_child,
     payload |-> IF child_first_byte(cell.left_child) = 0 THEN EMPTY_PAYLOAD
                 ELSE GARBAGE_PAYLOAD]

\* range_cmp(range, other)
range_cmp(sb, eb, other) ==
    IF sb.kind = "Included" /\ sb.value > other THEN "Greater"
    ELSE IF sb.kind = "Excluded" /\ sb.value >= other THEN "Greater"
    ELSE IF eb.kind = "Included" /\ eb.value < other THEN "Less"
    ELSE IF eb.kind = "Excluded" /\ eb.value >= other THEN "Less"
    ELSE "Equal"

\* the comparators the crate builds: EqComparator, IndexComparator over a range
EqComparator == [eq |-> TRUE, start |-> Unbounded, end |-> Unbounded]
IndexComparator(sb, eb) == [eq |-> FALSE, start |-> sb, end |-> eb]

\* comparator.partial_cmp(record): Some(ordering), None when the record does
\* not decode, a panic when the record is empty (varint::read indexes byte 0)
partial_cmp(c, record) ==
    IF c.eq THEN "Equal"
    ELSE IF record = EMPTY_PAYLOAD THEN "Panic"
    ELSE IF record = GARBAGE_PAYLOAD THEN "None"
    ELSE range_cmp(c.start, c.end, record)

\* BTreeIndexEntries::seek_start
RECURSIVE BTreeIndexEntries_seek_start(_, _)
BTreeIndexEntries_seek_start(tree, e) ==
    LET p == e.page
        n == cell_count(tree, p)
        KeyOf(i) == IF page_type(tree, p) = INTERIOR_INDEX
                    THEN interior_index_cell(tree, p, i - 1).payload
                    ELSE leaf_index_cell(tree, p, i - 1)
        orderings == [i \in 1..n |-> partial_cmp(e.comparator, KeyOf(i))]
        IsLess == [i \in 1..n |-> orderings[i] = "Less"]
        \* the loop evaluates the comparator up to and including the cell it breaks at
        evaluated == IF LeadingCount(IsLess) < n
                     THEN LeadingCount(IsLess) + 1 ELSE n
        panics == \E i \in 1..evaluated : orderings[i] = "Panic"
        found == LastLeading(IsLess)
    IN
    IF page_type(tree, p) = INTERIOR_INDEX
    THEN IF panics \/ ~cell_pointer_ok(tree, p, found) THEN SeekPanic(e)
         ELSE LET child == interior_index_cell(tree, p, found).left_child IN
              IF ~BTreePage_new(tree, child) THEN SeekErr(e)
              ELSE BTreeIndexEntries_seek_start(tree,
                        [e EXCEPT !.page = child,
                                  !.stack = Append(@, <<p, found + 1>>)])
    ELSE IF page_type(tree, p) = LEAF_INDEX
    THEN IF panics THEN SeekPanic(e) ELSE SeekOk([e EXCEPT !.index = found])
    ELSE SeekPanic(e)

\* BTreeIndexEntries::with_range
BTreeIndexEntries_with_range(tree, root, comparator) ==
    BTreeIndexEntries_seek_start(tree,
        [page |-> root, index |-> 0, stack |-> << >>, comparator |-> comparator])

\* <BTreeIndexEntries as Iterator>::next
RECURSIVE BTreeIndexEntries_next(_, _)
BTreeIndexEntries_next(tree, e) ==
    IF e.index < cell_count(tree, e.page)
    THEN IF page_type(tree, e.page) = INTERIOR_INDEX
         THEN LET child == interior_index_cell(tree, e.page, e.index).left_child
                  advanced == [e EXCEPT !.index = @ + 1]
              IN IF ~BTreePage_new(tree, child)
                 THEN [entries |-> advanced, item |-> ItemErr]
                 ELSE BTreeIndexEntries_next(tree,
                        [e EXCEPT !.page = child, !.index = 0,
                                  !.stack = Append(@, <<e.page, e.index + 1>>)])
         ELSE IF page_type(tree, e.page) = LEAF_INDEX
         THEN LET record == leaf_index_cell(tree, e.page, e.index)
                  advanced == [e EXCEPT !.index = @ + 1]
                  o == partial_cmp(e.comparator, record)
              IN IF o = "Panic" THEN [entries |-> advanced, item |-> ItemPanic]
                 ELSE IF o = "Less" THEN [entries |-> advanced, item |-> ItemNone]
                 ELSE IF o = "Equal" THEN [entries |-> advanced, item |-> ItemOk(0, record)]
                 ELSE BTreeIndexEntries_next(tree, advanced)
         ELSE [entries |-> e, item |-> ItemPanic]
    ELSE IF Len(e.stack) > 0
    THEN LET popped == e.stack[Len(e.stack)] IN
         BTreeIndexEntries_next(tree,
            [e EXCEPT !.page = popped[1], !.index = popped[2],
                      !.stack = SubSeq(@, 1, Len(@) - 1)])
    ELSE [entries |-> e, item |-> ItemNone]

\* ------------------------------------------------ writing a leaf page
\* db_header::reserved: page 1 starts with the file header
reserved(page_number) == IF page_number = 1 THEN HEADER_SIZE ELSE 0

\* BTreePageType::header_size
header_size(flags) == IF flags \in {LEAF_INDEX, LEAF_TABLE} THEN 8 ELSE 12

\* BTreePageHeader::validate: the flags byte must be a page type
validate_ok(flags) == flags \in {INTERIOR_INDEX, INTERIOR_TABLE, LEAF_INDEX, LEAF_TABLE}

\* i64::BITS - value.abs().leading_zeros()
RECURSIVE bit_length(_)
bit_length(v) == IF v = 0 THEN 0 ELSE 1 + bit_length(v \div 2)

\* varint::write: the number of bytes written
varint_write(value) ==
    LET bits_needed == bit_length(IF value < 0 THEN 0 - value ELSE value) + 1
        bytes_needed == (bits_needed + 7) \div 7
    IN IF bytes_needed >= 9 THEN 9 ELSE bytes_needed

\* a record: its column values as one token, and the number of its bytes
Record(type_, name, root, val, len) ==
    [type_ |-> type_, name |-> name, rootpage |-> root, val |-> val, len |-> len]
\* bytes read where a cell was overwritten by a later write
GarbageRecord == Record("garbage", "", 0, 0, 0)

\* BTreePageMut::insert_table_record, append_cell and the drop of the view.
\* cell_content_start - cell.len() is computed in u16: below zero it panics
\* (overflow check) or wraps to an offset past the end of a page shorter
\* than 65536 bytes, where the slice panics.
insert_table_record(page, page_number, row_id, record) ==
    LET b == page.body
        cell_len == varint_write(record.len) + varint_write(row_id) + record.len
        ptr == b.cell_content_start - (cell_len % 65536)
        start == reserved(page_number) + header_size(b.flags) + b.cell_count * 2
    IN IF b.flags # LEAF_TABLE \/ ptr < 0 \/ ptr + cell_len > page.len
          \/ start + 2 > page.len
       THEN [panicked |-> TRUE, page |-> page]
       ELSE [panicked |-> FALSE,
             page |-> [page EXCEPT !.body =
                [flags |-> b.flags,
                 cell_count |-> b.cell_count + 1,
                 cell_content_start |-> ptr,
                 cells |-> Append(b.cells, [ptr |-> ptr, size |-> cell_len,
                                            row_id |-> row_id, payload |-> record])]]]

\* two byte ranges [a, a + alen) and [b, b + blen) share a byte
Overlap(a, alen, b, blen) == a < b + blen /\ b < a + alen

\* BTreePage::cell_pointer and leaf_table_cell on the bytes of the page.  Cell
\* i (from 1) was written as: its bytes at ptr, then its pointer at slot i;
\* the page header is written last, when the view is dropped.  The cell
\* reads back as written unless a later write went over its pointer or over
\* its bytes.
cell_intact(page, page_number, i) ==
    LET b == page.body
        slot(j) == reserved(page_number) + header_size(b.flags) + (j - 1) * 2
        c == b.cells[i]
    IN /\ \A j \in (i + 1)..Len(b.cells) :
            ~Overlap(b.cells[j].ptr, b.cells[j].size, slot(i), 2)
       /\ \A j \in i..Len(b.cells) : ~Overlap(slot(j), 2, c.ptr, c.size)
       /\ ~Overlap(reserved(page_number), header_size(b.flags), c.ptr, c.size)

\* the page as BTreePage reads it
BTreePage_read(page, page_number) ==
    [flags |-> page.body.flags,
     cells |-> [i \in 1..Len(page.body.cells) |->
                    IF cell_intact(page, page_number, i)
                    THEN [row_id |-> page.body.cells[i].row_id,
                          payload |-> page.body.cells[i].payload]
                    ELSE [row_id |-> 0, payload |-> GarbageRecord]],
     right_most_pointer |-> 0]

\* ------------------------------------------------ the schema layer
\* Table::NAME of the schema table, of the tables created and of their indexes
SCHEMA == "sqlite_schema"
TableNames == {"a", "b"}
SchemaNames == TableNames \cup {"b_x"}
\* Table::TYPE
TYPE(T) == IF T = "b_x" THEN "index" ELSE "table"
\* serialize_record(schema).len(), for the schemas created
SchemaRecordLen == 80

\* T::schemas(): the schema row of the table, then one for each of its indexes
schemas(T) ==
    IF T = "b"
    THEN <<Record("table", "b", 0, 0, SchemaRecordLen),
           Record("index", "b_x", 0, 0, SchemaRecordLen)>>
    ELSE <<Record("table", T, 0, 0, SchemaRecordLen)>>

\* the rows inserted: a short one and one of half a default page
Rows == {Record("row", "", 0, 1, 80), Record("row", "", 0, 2, 2000)}

\* BTreePage::new(db, n) and an unbounded scan of that page, db being the
\* transaction t (the database itself when t has no dirty pages)
table_iter(t, store, hdr, hasF, file, root) ==
    LET r == Transaction_page(t, store, hdr, hasF, file, root) IN
    IF ~r.res.ok THEN [outcome |-> "err", items |-> << >>, pages |-> r.pages]
    ELSE IF ~validate_ok(r.res.page.body.flags)
    THEN [outcome |-> "panic", items |-> << >>, pages |-> r.pages]
    ELSE LET tree == [x \in {root} |-> BTreePage_read(r.res.page, root)]
             e == BTreeTableEntries_new(root)
             last == LastItem(tree, e)
         IN [outcome |-> IF last.kind = "Panic" THEN "panic"
                         ELSE IF last.kind = "Err" THEN "err" ELSE "ok",
             items |-> Collect(tree, e),
             pages |-> r.pages]

\* table_rootpage::<T>(db)
table_rootpage(T, t, store, hdr, hasF, file) ==
    IF T = SCHEMA THEN [outcome |-> "ok", rootpage |-> 1, pages |-> store]
    ELSE LET sc == table_iter(t, store, hdr, hasF, file, 1)
             Match(it) == it.payload.type_ = TYPE(T) /\ it.payload.name = T
             Stop(it) == Match(it) \/ it.payload = GarbageRecord
             stops == {i \in 1..Len(sc.items) : Stop(sc.items[i])}
         IN IF stops # {} /\ Match(sc.items[Min(stops)])
            THEN [outcome |-> "ok", rootpage |-> sc.items[Min(stops)].payload.rootpage,
                  pages |-> sc.pages]
            ELSE [outcome |-> IF stops = {} /\ sc.outcome = "panic" THEN "panic" ELSE "err",
                  rootpage |-> 0, pages |-> sc.pages]

\* TableHandleMut::insert: rootpage_mut, insert_table_record with row id 1
insert(t, store, hdr, hasF, file, root, row) ==
    LET pm == page_mut(t, store, hdr, hasF, file, root) IN
    IF ~pm.res.ok THEN [outcome |-> "err", txn |-> pm.txn, pages |-> pm.pages]
    ELSE IF ~validate_ok(pm.res.page.body.flags)
    THEN [outcome |-> "panic", txn |-> pm.txn, pages |-> pm.pages]
    ELSE LET row_id == 1
             ins == insert_table_record(pm.res.page, root, row_id, row)
         IN IF ins.panicked THEN [outcome |-> "panic", txn |-> pm.txn, pages |-> pm.pages]
            ELSE [outcome |-> "ok",
                  txn |-> [pm.txn EXCEPT !.dirty_pages[root] = ins.page],
                  pages |-> pm.pages]

\* create_table, first loop: a new page for every schema, formatted as an
\* empty leaf table
RECURSIVE create_roots(_, _, _, _)
create_roots(t, hdr, scs, k) ==
    IF k > Len(scs) THEN [txn |-> t, schemas |-> scs]
    ELSE LET r == new_page(t, hdr)
             data == BTreePageMut_empty(LEAF_TABLE, r.page)
         IN create_roots([r.txn EXCEPT !.dirty_pages[r.page_number] = data],
                         hdr, [scs EXCEPT ![k].rootpage = r.page_number], k + 1)

\* create_table, second loop: the schema rows into the schema table
RECURSIVE insert_schemas(_, _, _, _, _, _, _)
insert_schemas(t, store, hdr, hasF, file, scs, k) ==
    IF k > Len(scs) THEN [outcome |-> "ok", txn |-> t, pages |-> store]
    ELSE LET r == insert(t, store, hdr, hasF, file, 1, scs[k]) IN
         IF r.outcome # "ok" THEN r
         ELSE insert_schemas(r.txn, r.pages, hdr, hasF, file, scs, k + 1)

\* Transaction::create_table::<T>
create_table(T, t, store, hdr, hasF, file) ==
    IF pop_page_panics(t)
    THEN [outcome |-> "panic", txn |-> t, pages |-> store, roots |-> << >>]
    ELSE LET made == create_roots(t, hdr, schemas(T), 1)
             r == insert_schemas(made.txn, store, hdr, hasF, file, made.schemas, 1)
         IN [outcome |-> r.outcome, txn |-> r.txn, pages |-> r.pages,
             roots |-> [k \in 1..Len(made.schemas) |-> made.schemas[k].rootpage]]

\* ------------------------------------------------ B-trees to read
\* The trees a file written by SQLite holds: the sorted keys are packed into
\* leaves of leafCap cells, the leaves into interior pages of fanout
\* children, and so on up to one root.  An interior cell holds its left
\* child and a separator: in a table tree the largest row id of that child,
\* in an index tree a key of its own, which no leaf repeats.  The last child
\* of an interior page is its right-most pointer.
FIRST_TREE_PAGE == 2

RECURSIVE SortedSeq(_)
SortedSeq(S) == IF S = {} THEN << >> ELSE <<Min(S)>> \o SortedSeq(S \ {Min(S)})

\* m leaves of at most n cells
LeafBounds(m, n) ==
    [g \in 1..((m + n - 1) \div n) |-> <<(g - 1) * n + 1, IF g * n < m THEN g * n ELSE m>>]
\* m children in groups of n; a child left alone joins the group before it
GroupBounds(m, n) ==
    LET k == IF m <= n THEN 1 ELSE IF m % n = 1 THEN m \div n ELSE (m + n - 1) \div n IN
    [g \in 1..k |-> <<(g - 1) * n + 1, IF g = k THEN m ELSE g * n>>]

InteriorCell(flags, child, sep) ==
    IF flags = INTERIOR_TABLE THEN [left_child |-> child, row_id |-> sep]
    ELSE [left_child |-> child, payload |-> sep]

RECURSIVE BuildLevels(_, _, _, _, _)
BuildLevels(level, seps, store, fanout, flags) ==
    IF Len(level) = 1 THEN [root |-> level[1], pages |-> store]
    ELSE LET gb == GroupBounds(Len(level), fanout)
             base == Max(DOMAIN store)
             node(g) ==
                [flags |-> flags,
                 cells |-> [j \in 1..(gb[g][2] - gb[g][1]) |->
                              InteriorCell(flags, level[gb[g][1] + j - 1], seps[gb[g][1] + j - 1])],
                 right_most_pointer |-> level[gb[g][2]]]
         IN BuildLevels([g \in 1..Len(gb) |-> base + g],
                        [g \in 1..(Len(gb) - 1) |-> seps[gb[g][2]]],
                        [n \in (DOMAIN store) \cup ((base + 1)..(base + Len(gb))) |->
                            IF n \in DOMAIN store THEN store[n] ELSE node(n - base)],
                        fanout, flags)

\* the record stored with row id r
RowPayload(r) == 100 + r

TableLeaf(ids) ==
    [flags |-> LEAF_TABLE,
     cells |-> [i \in 1..Len(ids) |-> [row_id |-> ids[i], payload |-> RowPayload(ids[i])]],
     right_most_pointer |-> 0]

TableTree(idSet, leafCap, fanout) ==
    LET ids == SortedSeq(idSet)
        lb == LeafBounds(Len(ids), leafCap)
        m == IF Len(ids) = 0 THEN 1 ELSE Len(lb)
        leaf(g) == IF Len(ids) = 0 THEN TableLeaf(<< >>)
                   ELSE TableLeaf(SubSeq(ids, lb[g][1], lb[g][2]))
    IN BuildLevels([g \in 1..m |-> FIRST_TREE_PAGE + g - 1],
                   [g \in 1..(m - 1) |-> ids[lb[g][2]]],
                   [n \in FIRST_TREE_PAGE..(FIRST_TREE_PAGE + m - 1) |->
                        leaf(n - FIRST_TREE_PAGE + 1)],
                   fanout, INTERIOR_TABLE)

IndexLeaf(keys) ==
    [flags |-> LEAF_INDEX,
     cells |-> [i \in 1..Len(keys) |-> [payload |-> keys[i]]],
     right_most_pointer |-> 0]

\* the index over the keys 1..n: leafCap keys to a leaf, the next key to the
\* interior cell that separates it from the following leaf
IndexTree(n, leafCap, fanout) ==
    LET stride == leafCap + 1
        m == IF n = 0 THEN 1
             ELSE IF n % stride = 0 THEN n \div stride ELSE n \div stride + 1
        leaf(g) == IndexLeaf([i \in 1..((IF g = m THEN n ELSE g * stride - 1)
                                        - (g - 1) * stride) |-> (g - 1) * stride + i])
    IN BuildLevels([g \in 1..m |-> FIRST_TREE_PAGE + g - 1],
                   [g \in 1..(m - 1) |-> g * stride],
                   [p \in FIRST_TREE_PAGE..(FIRST_TREE_PAGE + m - 1) |->
                        leaf(p - FIRST_TREE_PAGE + 1)],
                   fanout, INTERIOR_INDEX)

\* the keys stored in the leaves, and in the interior cells, of an index tree
TreeLeafKeys(tree) ==
    UNION {{tree[p].cells[i].payload : i \in 1..Len(tree[p].cells)} :
            p \in {q \in DOMAIN tree : tree[q].flags = LEAF_INDEX}}
TreeInteriorKeys(tree) ==
    UNION {{tree[p].cells[i].payload : i \in 1..Len(tree[p].cells)} :
            p \in {q \in DOMAIN tree : tree[q].flags = INTERIOR_INDEX}}

\* the row ids stored in the leaves of a table tree
TreeRowIds(tree) ==
    UNION {{tree[p].cells[i].row_id : i \in 1..Len(tree[p].cells)} :
            p \in {q \in DOMAIN tree : tree[q].flags = LEAF_TABLE}}

InitCommon ==
    /\ rw = 0 /\ fmutex = 0
    /\ txOpen = FALSE /\ txn = NoTxn
    /\ pc = [r \in Readers |-> "idle"]
    /\ key = [r \in Readers |-> 0]
    /\ buf = [r \in Readers |-> NoPage]
    /\ ret = [r \in Readers |-> Unit]
    /\ panicked = FALSE
    /\ returned = NoReturn
    /\ shadow = EmptyMap /\ invalidated = FALSE /\ allocs = 0
    /\ committed = NoCommit /\ inserts = NoInserts

\* DB::new
DB_new ==
    /\ hasFile = FALSE /\ disk = << >>
    /\ header = Header_default
    /\ pages = insert_or_replace(EmptyMap, 1, DB_new_first_page)

\* DB::open
DB_open ==
    \E ps \in FilePageSizes, size \in FileSizes :
        /\ hasFile = TRUE /\ disk = InitialFile(ps, size)
        /\ header = Header_read(disk)
        /\ pages = EmptyMap

\* no iterator open
NoEntries == [page |-> 0, index |-> 0, stack |-> << >>, max_row_id |-> None]
NoQuery == [kind |-> "none", start |-> Unbounded, end |-> Unbounded, failed |-> FALSE]
NoLedger ==
    [txns |-> 0, committed |-> FALSE, inserts |-> 0,
     created |-> [T \in TableNames |-> << >>],
     rows |-> [T \in TableNames |-> << >>]]
\* nothing is being encoded or decoded
NoCodec == [stage |-> "none"]
\* save_as has not been called
NoSave ==
    [done |-> FALSE, ok |-> FALSE, reopened |-> FALSE, in_memory |-> FALSE,
     database_size |-> 0, file |-> << >>, ledger |-> NoLedger]
NoIter ==
    /\ entries = NoEntries /\ query = NoQuery
    /\ yielded = << >> /\ ended = FALSE
    /\ ledger = NoLedger /\ saved = NoSave /\ codec = NoCodec
NoScan == btree = EmptyMap /\ rootpage = 0 /\ NoIter

Init == InitCommon /\ (DB_new \/ DB_open) /\ NoScan

\* a database whose table was written by SQLite
TableInit ==
    /\ InitCommon /\ DB_new
    /\ \E idSet \in SUBSET RowIds, leafCap \in LeafCaps, fanout \in Fanouts :
        LET t == TableTree(idSet, leafCap, fanout) IN
        btree = t.pages /\ rootpage = t.root
    /\ NoIter

\* a database whose index was written by SQLite
IndexInit ==
    /\ InitCommon /\ DB_new
    /\ \E n \in 0..MaxKeys, leafCap \in IndexLeafCaps, fanout \in Fanouts :
        LET t == IndexTree(n, leafCap, fanout) IN
        btree = t.pages /\ rootpage = t.root
    /\ NoIter

Idle == \A r \in Readers : pc[r] = "idle"

\* ------------------------------------------------- exclusive operations
BeginTransaction ==
    /\ UNCHANGED scanVars
    /\ ~txOpen /\ ~panicked /\ Idle
    /\ LET r == begin_transaction(pages, header, hasFile, disk) IN
        /\ pages' = r.pages /\ header' = r.header /\ txn' = r.txn
        /\ invalidated' = r.cleared
        /\ inserts' = IF r.cleared THEN NoInserts ELSE inserts
    /\ txOpen' = TRUE
    /\ returned' = NoReturn
    /\ shadow' = EmptyMap /\ allocs' = 0
    /\ UNCHANGED <<hasFile, disk, lockVars, readerVars, panicked, committed>>

ClearCache ==
    /\ UNCHANGED scanVars
    /\ ~txOpen /\ ~panicked /\ Idle
    /\ pages' = clear_cache(pages, hasFile)
    /\ inserts' = IF hasFile THEN NoInserts ELSE inserts
    /\ returned' = NoReturn
    /\ invalidated' = FALSE /\ committed' = NoCommit
    /\ UNCHANGED <<hasFile, disk, header, lockVars, txVars, readerVars, panicked,
                   shadow, allocs>>

TxPage(n) ==
    /\ UNCHANGED scanVars
    /\ txOpen /\ ~panicked
    /\ LET r == Transaction_page(txn, pages, header, hasFile, disk, n) IN
        /\ pages' = r.pages
        /\ returned' = NoReturn
    /\ committed' = NoCommit
    /\ UNCHANGED <<hasFile, disk, header, lockVars, txVars, readerVars, panicked,
                   shadow, invalidated, allocs, inserts>>

TxPageMut(n, w) ==
    /\ UNCHANGED scanVars
    /\ txOpen /\ ~panicked
    /\ LET r == page_mut(txn, pages, header, hasFile, disk, n)
           base == IF n \in DOMAIN shadow THEN shadow[n]
                   ELSE DB_page(pages, header, hasFile, disk, n).res.page
       IN
        /\ pages' = r.pages
        /\ returned' = NoReturn
        /\ IF r.res.ok
           THEN /\ txn' = [r.txn EXCEPT !.dirty_pages[n] = ApplyWrite(r.res.page, w)]
                /\ shadow' = Put(shadow, n, ApplyWrite(base, w))
           ELSE /\ txn' = r.txn
                /\ shadow' = shadow
    /\ committed' = NoCommit
    /\ UNCHANGED <<hasFile, disk, header, lockVars, txOpen, readerVars, panicked,
                   invalidated, allocs, inserts>>

TxNewPage(w) ==
    /\ UNCHANGED scanVars
    /\ txOpen /\ ~panicked
    /\ txn.database_size < MaxPage
    /\ IF pop_page_panics(txn)
       THEN /\ panicked' = TRUE
            /\ returned' = NoReturn
            /\ UNCHANGED <<txn, shadow, allocs>>
       ELSE LET r == new_page(txn, header)
                n == r.page_number
                base == IF n \in DOMAIN shadow THEN shadow[n]
                        ELSE ZeroPage(page_size(header))
            IN
            /\ txn' = [r.txn EXCEPT !.dirty_pages[n] = ApplyWrite(r.page, w)]
            /\ shadow' = Put(shadow, n, ApplyWrite(base, w))
            /\ allocs' = allocs + 1
            /\ returned' = [valid |-> TRUE, page_number |-> n, page |-> r.page]
            /\ panicked' = FALSE
    /\ committed' = NoCommit
    /\ UNCHANGED <<dbVars, lockVars, txOpen, readerVars, invalidated, inserts>>

TxCommit ==
    /\ UNCHANGED scanVars
    /\ txOpen /\ ~panicked
    /\ LET r == commit(txn, pages, header) IN
        /\ pages' = r.pages /\ header' = r.header /\ panicked' = r.panicked
        /\ committed' = [attempted |-> TRUE, returned |-> ~r.panicked, txn |-> txn,
                        before |-> pages]
    /\ txOpen' = FALSE /\ txn' = NoTxn
    /\ returned' = NoReturn
    /\ shadow' = EmptyMap /\ invalidated' = FALSE /\ allocs' = 0
    /\ UNCHANGED <<hasFile, disk, lockVars, readerVars, inserts>>

\* drop(transaction)
TxDrop ==
    /\ UNCHANGED scanVars
    /\ txOpen /\ ~panicked
    /\ txOpen' = FALSE /\ txn' = NoTxn
    /\ returned' = NoReturn
    /\ shadow' = EmptyMap /\ allocs' = 0 /\ committed' = NoCommit
    /\ invalidated' = FALSE
    /\ UNCHANGED <<dbVars, lockVars, readerVars, panicked, inserts>>

\* DB::page called on the database while no transaction borrows it
DBPageCall(n) ==
    /\ UNCHANGED scanVars
    /\ ~txOpen /\ ~panicked
    /\ pages' = DB_page(pages, header, hasFile, disk, n).pages
    /\ returned' = NoReturn
    /\ invalidated' = FALSE /\ committed' = NoCommit
    /\ UNCHANGED <<hasFile, disk, header, lockVars, txVars, readerVars, panicked,
                   shadow, allocs, inserts>>

\* ------------------------------------------- concurrent DB::page callers
\* the write guard of the page store is dropped when the VacantEntry goes
\* out of scope: at the insert, and at every early return of DB::page
Release_leaks(r) == rw
Release(r) == IF rw = r THEN 0 ELSE rw
ReaderFrame ==
    /\ UNCHANGED scanVars
    /\ returned' = NoReturn /\ invalidated' = FALSE /\ committed' = NoCommit
    /\ UNCHANGED <<hasFile, disk, header, txVars, shadow, allocs>>

\* let entry = self.pages.entry(page_number)
ReaderEntry(r, n) ==
    /\ ~txOpen /\ ~panicked
    /\ pc[r] = "idle" /\ rw = 0
    /\ LET e == entry(pages, n) IN
        IF e.occupied
        THEN /\ pc' = [pc EXCEPT ![r] = "done"]
             /\ ret' = [ret EXCEPT ![r] = Ok(e.value)]
             /\ rw' = 0
        ELSE /\ pc' = [pc EXCEPT ![r] = "vacant"]
             /\ ret' = ret
             /\ rw' = VacantEntry_guard(r)
    /\ key' = [key EXCEPT ![r] = n]
    /\ ReaderFrame
    /\ UNCHANGED <<pages, fmutex, buf, panicked, inserts>>

\* Entry::Vacant: the bounds check, then the buffer
ReaderBounds(r) ==
    /\ ~panicked /\ pc[r] = "vacant"
    /\ IF ~in_bounds(header, key[r])
       THEN /\ pc' = [pc EXCEPT ![r] = "done"]
            /\ ret' = [ret EXCEPT ![r] = BoundsError]
            /\ rw' = Release(r)
            /\ buf' = buf
       ELSE IF hasFile
       THEN /\ pc' = [pc EXCEPT ![r] = "lock_file"]
            /\ UNCHANGED <<ret, rw, buf>>
       ELSE /\ pc' = [pc EXCEPT ![r] = "insert"]
            /\ buf' = [buf EXCEPT ![r] = ZeroPage(page_size(header))]
            /\ UNCHANGED <<ret, rw>>
    /\ ReaderFrame
    /\ UNCHANGED <<pages, fmutex, key, panicked, inserts>>

\* let mut file = file.lock().unwrap()
ReaderLockFile(r) ==
    /\ ~panicked /\ pc[r] = "lock_file" /\ fmutex = 0
    /\ fmutex' = r
    /\ pc' = [pc EXCEPT ![r] = "read"]
    /\ ReaderFrame
    /\ UNCHANGED <<pages, rw, key, buf, ret, panicked, inserts>>

\* file.seek(..)?; file.read_exact(&mut page)?; the guard is dropped after
ReaderRead(r) ==
    /\ ~panicked /\ pc[r] = "read"
    /\ LET rd == file_read(disk, header, key[r]) IN
        IF rd.ok
        THEN /\ buf' = [buf EXCEPT ![r] = rd.page]
             /\ pc' = [pc EXCEPT ![r] = "insert"]
             /\ UNCHANGED <<ret, rw>>
        ELSE /\ ret' = [ret EXCEPT ![r] = rd]
             /\ pc' = [pc EXCEPT ![r] = "done"]
             /\ rw' = Release(r)
             /\ buf' = buf
    /\ fmutex' = 0
    /\ ReaderFrame
    /\ UNCHANGED <<pages, key, panicked, inserts>>

\* entry.insert(page)
ReaderInsert(r) ==
    /\ ~panicked /\ pc[r] = "insert"
    /\ LET i == VacantEntry_insert(pages, key[r], buf[r]) IN
        /\ pages' = i.pages
        /\ panicked' = ~i.old_is_none
    /\ inserts' = [inserts EXCEPT ![key[r]] = @ + 1]
    /\ ret' = [ret EXCEPT ![r] = Ok(buf[r])]
    /\ pc' = [pc EXCEPT ![r] = "done"]
    /\ rw' = Release(r)
    /\ ReaderFrame
    /\ UNCHANGED <<fmutex, key, buf>>

\* the caller lets go of the returned borrow
ReaderRelease(r) ==
    /\ ~panicked /\ pc[r] = "done"
    /\ pc' = [pc EXCEPT ![r] = "idle"]
    /\ key' = [key EXCEPT ![r] = 0]
    /\ buf' = [buf EXCEPT ![r] = NoPage]
    /\ ret' = [ret EXCEPT ![r] = Unit]
    /\ ReaderFrame
    /\ UNCHANGED <<pages, lockVars, panicked, inserts>>

\* -------------------------------------------------- the other process
\* Another process rewrites the file between two transactions and bumps the
\* file change counter: it overwrites a page, appends one, truncates one, or
\* appends one and leaves it on the freelist (a table created and dropped).
\* The bytes it writes are stamped with the new counter, as tokens below zero.
SetFileHeader(file, h) == [file EXCEPT ![1] = write_to_prefix(h, file[1])]

ExternalWrite(kind, n) ==
    /\ UNCHANGED scanVars
    /\ hasFile /\ ~txOpen /\ ~panicked
    /\ LET h == Header_read(disk)
           bumped == [h EXCEPT !.file_change_counter = @ + 1]
           b == Stamp(0 - bumped.file_change_counter)
       IN
        /\ h.file_change_counter < MaxCounter
        /\ \/ /\ kind = "update" /\ n \in 1..Len(disk)
              /\ disk' = SetFileHeader([disk EXCEPT ![n].body = b], bumped)
           \/ /\ kind = "grow" /\ n = Len(disk) + 1 /\ n <= MaxPage
              /\ disk' = SetFileHeader(
                    Append(disk, [ZeroPage(page_size(h)) EXCEPT !.body = b]),
                    [bumped EXCEPT !.database_size = n])
           \/ /\ kind = "shrink" /\ n = Len(disk) /\ n > 1
              /\ disk' = SetFileHeader(
                    SubSeq(disk, 1, n - 1),
                    [bumped EXCEPT !.database_size = n - 1,
                                   !.freelist_head = 0, !.freelist_count = 0])
           \/ /\ kind = "free" /\ n = Len(disk) + 1 /\ n <= MaxPage
              /\ h.freelist_count = 0
              /\ disk' = SetFileHeader(
                    Append(disk, ZeroPage(page_size(h))),
                    [bumped EXCEPT !.database_size = n,
                                   !.freelist_head = n, !.freelist_count = 1])
    /\ returned' = NoReturn
    /\ invalidated' = FALSE /\ committed' = NoCommit
    /\ UNCHANGED <<hasFile, pages, header, lockVars, txVars, readerVars, panicked,
                   shadow, allocs, inserts>>

ExternalWrites ==
    \E kind \in {"update", "grow", "shrink", "free"}, n \in PageNums :
        ExternalWrite(kind, n)

\* ------------------------------------------------ reading a table
ScanFrame == UNCHANGED <<dbVars, lockVars, txVars, readerVars, histVars, btree, rootpage, ledger, saved, codec>>

\* table_range_impl: the bounds of the range as with_range takes them
range_start(b) ==
    IF b.kind = "Included" THEN Some(b.value)
    ELSE IF b.kind = "Excluded" THEN Some(b.value + 1)
    ELSE None
range_end(b) ==
    IF b.kind = "Included" THEN Some(b.value + 1)
    ELSE IF b.kind = "Excluded" THEN Some(b.value)
    ELSE None
table_range_impl(tree, root, sb, eb) ==
    IF ~BTreePage_new(tree, root) THEN SeekErr(NoEntries)
    ELSE BTreeTableEntries_with_range(tree, root, range_start(sb), range_end(eb))

\* the five range kinds over i64, and the full range iter() passes
RangeValues == 0..(MaxRowId + 1)
TableRanges ==
    {<<Included(a), Excluded(b)>> : a \in RangeValues, b \in RangeValues}
    \cup {<<Included(a), Included(b)>> : a \in RangeValues, b \in RangeValues}
    \cup {<<Included(a), Unbounded>> : a \in RangeValues}
    \cup {<<Unbounded, Excluded(b)>> : b \in RangeValues}
    \cup {<<Unbounded, Included(b)>> : b \in RangeValues}

OpenTable(kind, sb, eb) ==
    /\ query.kind = "none" /\ ~panicked
    /\ LET r == table_range_impl(btree, rootpage, sb, eb) IN
        /\ entries' = r.entries
        /\ panicked' = (r.outcome = "panic")
        /\ query' = [kind |-> kind, start |-> sb, end |-> eb, failed |-> r.outcome = "err"]
        /\ ended' = (r.outcome = "err")
    /\ yielded' = << >>
    /\ ScanFrame

\* TableHandle::iter
TableIter == OpenTable("iter", Unbounded, Unbounded)

\* TableHandle::get(range)
TableRange(sb, eb) == OpenTable("range", sb, eb)

\* a next() whose None the caller never sees: the scan is never over
TableNext_never_ends ==
    /\ query.kind \in {"iter", "range"} /\ ~ended /\ ~panicked
    /\ LET r == BTreeTableEntries_next(btree, entries) IN
        /\ entries' = r.entries
        /\ panicked' = (r.item.kind = "Panic")
        /\ ended' = FALSE
        /\ yielded' = IF r.item.kind \in {"Some", "Err"} THEN Append(yielded, r.item)
                      ELSE yielded
    /\ query' = query
    /\ ScanFrame

\* one call of next() on the open iterator; the caller stops at None
TableNext ==
    /\ query.kind \in {"iter", "range"} /\ ~ended /\ ~panicked
    /\ LET r == BTreeTableEntries_next(btree, entries) IN
        /\ entries' = r.entries
        /\ panicked' = (r.item.kind = "Panic")
        /\ ended' = (r.item.kind = "None")
        /\ yielded' = IF r.item.kind \in {"Some", "Err"} THEN Append(yielded, r.item)
                      ELSE yielded
    /\ query' = query
    /\ ScanFrame

\* TableHandle::get(row_id): table_range_impl(table, row_id..)?.next().transpose()
TableGet(row_id) ==
    /\ query.kind = "none" /\ ~panicked
    /\ LET r == table_range_impl(btree, rootpage, Included(row_id), Unbounded)
           n == BTreeTableEntries_next(btree, r.entries)
       IN
        /\ query' = [kind |-> "get", start |-> Included(row_id), end |-> Unbounded,
                     failed |-> r.outcome = "err" \/ (r.outcome = "ok" /\ n.item.kind = "Err")]
        /\ panicked' = (r.outcome = "panic" \/ (r.outcome = "ok" /\ n.item.kind = "Panic"))
        /\ entries' = IF r.outcome = "ok" THEN n.entries ELSE r.entries
        /\ yielded' = IF r.outcome = "ok" /\ n.item.kind = "Some" THEN <<n.item>> ELSE << >>
    /\ ended' = TRUE
    /\ ScanFrame

\* the iterator, or the Option that get returned, is dropped
ScanClose ==
    /\ query.kind # "none" /\ ~panicked
    /\ entries' = NoEntries /\ query' = NoQuery
    /\ yielded' = << >> /\ ended' = FALSE
    /\ panicked' = panicked
    /\ ScanFrame

\* ------------------------------------------------ reading an index
\* index_range_impl
index_range_impl(tree, root, comparator) ==
    IF ~BTreePage_new(tree, root) THEN SeekErr(NoEntries)
    ELSE BTreeIndexEntries_with_range(tree, root, comparator)

KeyValues == 0..(MaxKeys + 1)
IndexRanges ==
    {<<Included(a), Excluded(b)>> : a \in KeyValues, b \in KeyValues}
    \cup {<<Included(a), Included(b)>> : a \in KeyValues, b \in KeyValues}
    \cup {<<Included(a), Unbounded>> : a \in KeyValues}
    \cup {<<Unbounded, Excluded(b)>> : b \in KeyValues}
    \cup {<<Unbounded, Included(b)>> : b \in KeyValues}

OpenIndex(kind, comparator) ==
    /\ query.kind = "none" /\ ~panicked
    /\ LET r == index_range_impl(btree, rootpage, comparator) IN
        /\ entries' = r.entries
        /\ panicked' = (r.outcome = "panic")
        /\ query' = [kind |-> kind, start |-> comparator.start, end |-> comparator.end,
                     failed |-> r.outcome = "err"]
        /\ ended' = (r.outcome = "err")
    /\ yielded' = << >>
    /\ ScanFrame

\* TableHandle::iter_without_row_id
IndexIter == OpenIndex("index_iter", EqComparator)

\* TableHandle::get(range of sort keys)
IndexRange(sb, eb) == OpenIndex("index_range", IndexComparator(sb, eb))

\* one call of next() on the open index iterator; the caller stops at None
IndexNext ==
    /\ query.kind \in {"index_iter", "index_range"} /\ ~ended /\ ~panicked
    /\ LET r == BTreeIndexEntries_next(btree, entries) IN
        /\ entries' = r.entries
        /\ panicked' = (r.item.kind = "Panic")
        /\ ended' = (r.item.kind = "None")
        /\ yielded' = IF r.item.kind \in {"Some", "Err"} THEN Append(yielded, r.item)
                      ELSE yielded
    /\ query' = query
    /\ ScanFrame

\* TableHandle::get(&key): (key..).range(index)?.next().transpose()
IndexGet(k) ==
    /\ query.kind = "none" /\ ~panicked
    /\ LET r == index_range_impl(btree, rootpage, IndexComparator(Included(k), Unbounded))
           n == BTreeIndexEntries_next(btree, r.entries)
       IN
        /\ query' = [kind |-> "index_get", start |-> Included(k), end |-> Unbounded,
                     failed |-> r.outcome = "err" \/ (r.outcome = "ok" /\ n.item.kind = "Err")]
        /\ panicked' = (r.outcome = "panic" \/ (r.outcome = "ok" /\ n.item.kind = "Panic"))
        /\ entries' = IF r.outcome = "ok" THEN n.entries ELSE r.entries
        /\ yielded' = IF r.outcome = "ok" /\ n.item.kind = "Some" THEN <<n.item>> ELSE << >>
    /\ ended' = TRUE
    /\ ScanFrame

\* ------------------------------------------------ the schema layer at work
SchemaFrame == UNCHANGED <<hasFile, disk, lockVars, readerVars, histVars, btree, entries, saved, codec>>

\* DB::begin_transaction
SchemaBegin ==
    /\ ~txOpen /\ ~panicked /\ ledger.txns < MaxTxns
    /\ LET r == begin_transaction(pages, header, hasFile, disk) IN
        pages' = r.pages /\ header' = r.header /\ txn' = r.txn
    /\ txOpen' = TRUE
    /\ ledger' = [NoLedger EXCEPT !.txns = ledger.txns + 1, !.inserts = ledger.inserts]
    /\ query' = NoQuery /\ yielded' = << >> /\ ended' = FALSE
    /\ UNCHANGED <<panicked, rootpage>>
    /\ SchemaFrame

\* transaction.create_table::<T>()
CreateTable(T) ==
    /\ txOpen /\ ~panicked
    /\ txn.database_size + Len(schemas(T)) <= MaxRootPage
    /\ \E r \in {create_table(T, txn, pages, header, hasFile, disk)} :
        /\ txn' = r.txn /\ pages' = r.pages
        /\ panicked' = (r.outcome = "panic")
        /\ query' = [kind |-> "create", table |-> T, failed |-> r.outcome # "ok"]
        /\ ledger' = IF r.outcome = "ok"
                      THEN [ledger EXCEPT !.created[T] = @ \o r.roots]
                      ELSE ledger
    /\ yielded' = << >> /\ ended' = FALSE
    /\ UNCHANGED <<header, txOpen, rootpage>>
    /\ SchemaFrame

\* transaction.table_mut::<T>()?.insert(row)
Insert(T, row) ==
    /\ txOpen /\ ~panicked /\ ledger.inserts < MaxInserts
    /\ \E h \in {table_rootpage(T, txn, pages, header, hasFile, disk)} :
       \E r \in {IF h.outcome = "ok"
                 THEN insert(txn, h.pages, header, hasFile, disk, h.rootpage, row)
                 ELSE [outcome |-> h.outcome, txn |-> txn, pages |-> h.pages]} :
        /\ txn' = r.txn /\ pages' = r.pages
        /\ panicked' = (r.outcome = "panic")
        /\ rootpage' = h.rootpage
        /\ query' = [kind |-> "insert", table |-> T, failed |-> r.outcome # "ok"]
        /\ ledger' = IF r.outcome = "ok"
                      THEN [ledger EXCEPT !.rows[T] = Append(@, row), !.inserts = @ + 1]
                      ELSE ledger
    /\ yielded' = << >> /\ ended' = FALSE
    /\ UNCHANGED <<header, txOpen>>
    /\ SchemaFrame

\* transaction.commit()
SchemaCommit ==
    /\ txOpen /\ ~panicked
    /\ LET r == commit(txn, pages, header) IN
        pages' = r.pages /\ header' = r.header /\ panicked' = r.panicked
    /\ txOpen' = FALSE /\ txn' = NoTxn
    /\ ledger' = [ledger EXCEPT !.committed = TRUE]
    /\ query' = NoQuery /\ yielded' = << >> /\ ended' = FALSE
    /\ UNCHANGED rootpage
    /\ SchemaFrame

\* db.table::<T>()?.iter()?.collect(), db being the open transaction if there
\* is one and the database otherwise
ReadTable(T) ==
    /\ ~panicked
    /\ \E h \in {table_rootpage(T, txn, pages, header, hasFile, disk)} :
       \E sc \in {IF h.outcome = "ok"
                  THEN table_iter(txn, h.pages, header, hasFile, disk, h.rootpage)
                  ELSE [outcome |-> h.outcome, items |-> << >>, pages |-> h.pages]} :
        /\ pages' = sc.pages
        /\ panicked' = (sc.outcome = "panic")
        /\ rootpage' = h.rootpage
        /\ query' = [kind |-> "table", table |-> T, failed |-> sc.outcome # "ok"]
        /\ yielded' = sc.items
    /\ ended' = TRUE
    /\ UNCHANGED <<header, txVars, ledger>>
    /\ SchemaFrame

\* db.save_as(path), path naming a new file. On success the database keeps the
\* created handle, which File::create opened for writing only.
SaveAs ==
    /\ ~txOpen /\ ~panicked /\ ~saved.done
    /\ \E r \in {save_as(pages, header, hasFile, disk)} :
        /\ pages' = r.pages
        /\ hasFile' = (r.ok \/ hasFile)
        /\ disk' = IF r.ok THEN r.file ELSE disk
        /\ saved' = [done |-> TRUE, ok |-> r.ok, reopened |-> FALSE,
                     in_memory |-> ~hasFile,
                     database_size |-> header.database_size, file |-> r.file,
                     ledger |-> ledger]
    /\ query' = NoQuery /\ yielded' = << >> /\ ended' = FALSE
    /\ UNCHANGED <<header, txVars, panicked, rootpage, ledger>>
    /\ UNCHANGED <<lockVars, readerVars, histVars, btree, entries, codec>>

\* drop(db); DB::open(path) on the file save_as wrote
Reopen ==
    /\ ~txOpen /\ ~panicked
    /\ saved.done /\ saved.ok /\ ~saved.reopened
    /\ Len(saved.file) >= 1
    /\ hasFile' = TRUE /\ disk' = saved.file
    /\ header' = Header_read(saved.file)
    /\ pages' = EmptyMap
    /\ saved' = [saved EXCEPT !.reopened = TRUE]
    /\ query' = NoQuery /\ yielded' = << >> /\ ended' = FALSE
    /\ UNCHANGED <<txVars, panicked, rootpage, ledger>>
    /\ UNCHANGED <<lockVars, readerVars, histVars, btree, entries, codec>>

\* the handle save_as left in the database cannot be read
Readable == ~(saved.done /\ saved.ok /\ ~saved.reopened)

Next ==
    \/ BeginTransaction
    \/ ClearCache
    \/ \E n \in PageNums : TxPage(n)
    \/ \E n \in PageNums, w \in Writes : TxPageMut(n, w)
    \/ \E w \in Writes : TxNewPage(w)
    \/ TxCommit
    \/ TxDrop
    \/ \E n \in PageNums : DBPageCall(n)

\* one process owns the database: transactions and reads on one thread
Spec == Init /\ [][Next]_vars

FileNext == Next \/ ExternalWrites

\* the same, with another process rewriting the file between transactions
FileSpec == Init /\ [][FileNext]_vars

ReaderNext ==
    \/ \E r \in Readers, n \in PageNums : ReaderEntry(r, n)
    \/ \E r \in Readers : ReaderBounds(r)
    \/ \E r \in Readers : ReaderLockFile(r)
    \/ \E r \in Readers : ReaderRead(r)
    \/ \E r \in Readers : ReaderInsert(r)
    \/ \E r \in Readers : ReaderRelease(r)
    \/ ClearCache
    \/ ExternalWrites

\* many readers sharing the database, no writer
ReaderSpec == Init /\ [][ReaderNext]_vars

\* the steps a reader takes inside DB::page once entry() has returned
ReaderInside(r) == ReaderBounds(r) \/ ReaderLockFile(r) \/ ReaderRead(r) \/ ReaderInsert(r)

\* the same, where a thread inside DB::page keeps running
ReaderFairSpec ==
    Init /\ [][ReaderNext]_vars /\ \A r \in Readers : WF_vars(ReaderInside(r))

TableStep ==
    \/ TableIter
    \/ \E rg \in TableRanges : TableRange(rg[1], rg[2])
    \/ \E row_id \in RangeValues : TableGet(row_id)
    \/ TableNext
    \/ ScanClose

\* one table B-tree, read through a TableHandle
TableSpec == TableInit /\ [][TableStep]_vars

IndexStep ==
    \/ IndexIter
    \/ \E rg \in IndexRanges : IndexRange(rg[1], rg[2])
    \/ \E k \in KeyValues : IndexGet(k)
    \/ IndexNext
    \/ ScanClose

\* one index B-tree, read through a TableHandle
IndexSpec == IndexInit /\ [][IndexStep]_vars

SchemaStep ==
    \/ SchemaBegin
    \/ \E T \in TableNames : CreateTable(T)
    \/ \E row \in Rows : Insert("a", row)
    \/ SchemaCommit
    \/ \E T \in TableNames : ReadTable(T)

\* tables created, written and read through transactions
SchemaSpec == Init /\ [][SchemaStep]_vars

SaveStep ==
    \/ Readable /\ SchemaBegin
    \/ Readable /\ \E T \in TableNames : CreateTable(T)
    \/ Readable /\ SchemaCommit
    \/ Readable /\ ClearCache
    \/ Readable /\ \E T \in TableNames \cup {SCHEMA} : ReadTable(T)
    \/ SaveAs
    \/ Reopen

\* a database saved to a new file and opened again
SaveSpec == Init /\ [][SaveStep]_vars

\* ------------------------------------------------- trees with a lost page
\* a B-tree one of whose pages cannot be loaded: DB::page fails for it
Without(tree, p) == [n \in DOMAIN tree \ {p} |-> tree[n]]

FaultInit ==
    /\ InitCommon /\ DB_new
    /\ \E t \in {TableTree(idSet, leafCap, fanout) :
                    idSet \in SUBSET RowIds, leafCap \in LeafCaps, fanout \in Fanouts}
              \cup {IndexTree(n, leafCap, fanout) :
                    n \in 0..MaxKeys, leafCap \in IndexLeafCaps, fanout \in Fanouts} :
       \E lost \in DOMAIN t.pages \ {t.root} :
        btree = Without(t.pages, lost) /\ rootpage = t.root
    /\ NoIter

IsTable == btree[rootpage].flags \in {INTERIOR_TABLE, LEAF_TABLE}

FaultStep ==
    \/ IsTable /\ TableIter
    \/ IsTable /\ TableNext
    \/ ~IsTable /\ IndexIter
    \/ ~IsTable /\ IndexNext
    \/ ScanClose

\* scans of a B-tree that has lost a page
FaultSpec == FaultInit /\ [][FaultStep]_vars

\* ------------------------------------------------- scans run to their end
\* a whole or a damaged tree, of a table or of an index
DrainInit == TableInit \/ IndexInit \/ FaultInit

\* an iterator is opened once and next() is called until it returns None
DrainStep ==
    \/ IsTable /\ TableIter
    \/ IsTable /\ \E rg \in TableRanges : TableRange(rg[1], rg[2])
    \/ IsTable /\ TableNext
    \/ ~IsTable /\ IndexIter
    \/ ~IsTable /\ \E rg \in IndexRanges : IndexRange(rg[1], rg[2])
    \/ ~IsTable /\ IndexNext

\* the caller of an open iterator keeps calling next()
DrainSpec ==
    DrainInit /\ [][DrainStep]_vars /\ WF_vars(TableNext) /\ WF_vars(IndexNext)

\* ------------------------------------------------- operations that fail
\* DB::open on a file cut short after its header: Header::read succeeds, every
\* read_exact of a whole page fails
DB_open_truncated ==
    \E ps \in FilePageSizes :
        /\ hasFile = TRUE
        /\ disk = <<[InitialFile(ps, 1)[1] EXCEPT !.len = HEADER_SIZE]>>
        /\ header = Header_read(disk)
        /\ pages = EmptyMap

FailInit == InitCommon /\ (DB_new \/ DB_open \/ DB_open_truncated) /\ NoScan

FailStep ==
    \/ SchemaBegin
    \/ \E T \in TableNames : CreateTable(T)
    \/ Insert("a", Record("row", "", 0, 1, SchemaRecordLen))
    \/ \E n \in PageNums : TxPageMut(n, FALSE)
    \/ SchemaCommit

\* transactions on databases some of whose pages cannot be read
FailSpec == FailInit /\ [][FailStep]_vars

\* ------------------------------------------------------------- varints
\* An i64 is its 64 bits in two's complement, most significant first; a byte
\* is a number in 0..255.
BITS == 64
Bit(v, b) == IF b < BITS THEN v[BITS - b] ELSE 0
RECURSIVE Pow2(_)
Pow2(n) == IF n = 0 THEN 1 ELSE 2 * Pow2(n - 1)

\* (v >> shift) & (2^width - 1), v as u64
Field(v, shift, width) ==
    LET F[k \in 0..width] ==
            IF k = 0 THEN 0 ELSE F[k - 1] + Bit(v, shift + k - 1) * Pow2(k - 1)
    IN F[width]

\* result << shift | low, on u64: the high bits fall off
ShiftIn(v, shift, width, low) ==
    [i \in 1..BITS |->
        IF i <= BITS - shift THEN v[i + shift]
        ELSE IF BITS - i < width THEN (low \div Pow2(BITS - i)) % 2 ELSE 0]

ZeroBits == [i \in 1..BITS |-> 0]
IsNegative(v) == v[1] = 1
I64_MIN == [i \in 1..BITS |-> IF i = 1 THEN 1 ELSE 0]

\* i64::wrapping_neg
wrapping_neg(v) ==
    [i \in 1..BITS |->
        IF \E c \in 0..(BITS - i - 1) : Bit(v, c) = 1 THEN 1 - v[i] ELSE v[i]]

\* u64::leading_zeros
leading_zeros(v) ==
    IF v = ZeroBits THEN BITS ELSE Min({i \in 1..BITS : v[i] = 1}) - 1

\* varint::read
read(bytes) ==
    LET R[i \in 0..8] ==
            \* the state after the loop body has run for index i
            LET before == IF i = 0 THEN [result |-> ZeroBits, stop |-> FALSE, len |-> 0,
                                        panicked |-> FALSE]
                          ELSE R[i - 1]
            IN IF before.stop THEN before
               ELSE IF i + 1 > Len(bytes) THEN [before EXCEPT !.stop = TRUE, !.panicked = TRUE]
               ELSE LET byte == bytes[i + 1] IN
                    IF i >= 8
                    THEN [result |-> ShiftIn(before.result, 8, 8, byte), stop |-> TRUE,
                          len |-> i + 1, panicked |-> FALSE]
                    ELSE [result |-> ShiftIn(before.result, 7, 7, byte % 128),
                          stop |-> byte \div 128 = 0, len |-> i + 1, panicked |-> FALSE]
    IN [value |-> R[8].result, len |-> R[8].len, panicked |-> R[8].panicked]

\* varint::write, value.abs() wrapping on i64::MIN (a build without overflow checks)
write(value) ==
    LET abs == IF IsNegative(value) THEN wrapping_neg(value) ELSE value
        bits_needed == BITS - leading_zeros(abs) + 1
        bytes_needed == (bits_needed + 7) \div 7
    IN IF bytes_needed >= 9
       THEN [i \in 1..9 |->
                LET j == 8 - (i - 1) IN
                IF j = 0 THEN Field(value, 0, 8)
                ELSE Field(value, 7 * j + 1, 7) + 128]
       ELSE [i \in 1..bytes_needed |->
                LET j == bytes_needed - (i - 1) - 1 IN
                IF j = 0 THEN Field(value, 0, 7)
                ELSE Field(value, 7 * j, 7) + 128]

\* value.abs() overflows: a build with overflow checks panics there
abs_overflows(value) == value = I64_MIN

\* the shapes the low bits of a value take
Tails == {"zeros", "ones", "one_zeros", "zero_ones", "alternating"}
TailBit(tail, k, b) ==
    CASE tail = "zeros" -> 0
      [] tail = "ones" -> 1
      [] tail = "one_zeros" -> IF b = k - 1 THEN 1 ELSE 0
      [] tail = "zero_ones" -> IF b = k - 1 THEN 0 ELSE 1
      [] tail = "alternating" -> (k - b) % 2

\* the i64 whose high BITS-k bits are all `sign` and whose low k bits are `tail`
I64(sign, k, tail) ==
    [i \in 1..BITS |-> IF BITS - i >= k THEN sign ELSE TailBit(tail, k, BITS - i)]
I64Values == {I64(sign, k, tail) : sign \in {0, 1}, k \in 0..(BITS - 1), tail \in Tails}

VarintInit ==
    /\ InitCommon /\ DB_new
    /\ btree = EmptyMap /\ rootpage = 0
    /\ entries = NoEntries /\ query = NoQuery /\ yielded = << >> /\ ended = FALSE
    /\ ledger = NoLedger /\ saved = NoSave
    /\ \E v \in I64Values : codec = [stage |-> "value", value |-> v]

CodecFrame ==
    UNCHANGED <<dbVars, lockVars, txVars, readerVars, histVars,
                btree, rootpage, entries, query, yielded, ended, ledger, saved>>

\* let len = varint::write(value, &mut buf)
VarintWrite ==
    /\ codec.stage = "value" /\ ~panicked
    /\ \E checked \in BOOLEAN :
        IF checked /\ abs_overflows(codec.value)
        THEN panicked' = TRUE /\ codec' = codec
        ELSE /\ panicked' = FALSE
             /\ codec' = [stage |-> "written", value |-> codec.value,
                          bytes |-> write(codec.value)]
    /\ CodecFrame

\* varint::read(&buf)
VarintRead ==
    /\ codec.stage = "written" /\ ~panicked
    /\ \E r \in {read(codec.bytes)} :
        /\ panicked' = r.panicked
        /\ codec' = [stage |-> "read", value |-> codec.value, bytes |-> codec.bytes,
                     read_value |-> r.value, read_len |-> r.len]
    /\ CodecFrame

VarintStep == VarintWrite \/ VarintRead

\* one value written as a varint and read back
VarintSpec == VarintInit /\ [][VarintStep]_vars

\* ------------------------------------------------------------- records
\* a small non-negative number as an i64, and back; numbers too large for
\* the model's arithmetic come back as TOO_LARGE
TOO_LARGE == Pow2(30)
FromInt(n) == [i \in 1..BITS |-> IF BITS - i > 30 THEN 0 ELSE (n \div Pow2(BITS - i)) % 2]
ToInt(v) == IF \E b \in 30..(BITS - 1) : Bit(v, b) = 1 THEN TOO_LARGE ELSE Field(v, 0, 30)

RECURSIVE Flatten(_)
Flatten(seqs) == IF seqs = << >> THEN << >> ELSE Head(seqs) \o Flatten(Tail(seqs))
Drop(bytes, n) == SubSeq(bytes, n + 1, Len(bytes))

\* zerocopy big-endian integers: the low n bytes of v, and their sign extension
to_be_bytes(v, n) == [i \in 1..n |-> Field(v, 8 * (n - i), 8)]
from_be_bytes(bytes) ==
    LET n == Len(bytes) IN
    [i \in 1..BITS |->
        LET b == BITS - i IN
        IF b < 8 * n THEN (bytes[n - (b \div 8)] \div Pow2(b % 8)) % 2
        ELSE bytes[1] \div 128]

\* a SerialValue: its variant and the bytes it holds
SerialValue(ty, bytes) == [ty |-> ty, bytes |-> bytes]
IntTypes == {"I8", "I16", "I24", "I32", "I48", "I64"}
Width(ty) ==
    CASE ty = "I8" -> 1 [] ty = "I16" -> 2 [] ty = "I24" -> 3 [] ty = "I32" -> 4
      [] ty = "I48" -> 6 [] ty = "I64" -> 8 [] ty = "F64" -> 8 [] OTHER -> 0

\* RecordSerializer::serialize_i64, v.abs() wrapping on i64::MIN
serialize_i64(v) ==
    IF v = ZeroBits THEN SerialValue("Zero", << >>)
    ELSE IF v = FromInt(1) THEN SerialValue("One", << >>)
    ELSE LET abs == IF IsNegative(v) THEN wrapping_neg(v) ELSE v
             bits_required == BITS - leading_zeros(abs) + 1
             ty == IF bits_required <= 8 THEN "I8"
                   ELSE IF bits_required <= 16 THEN "I16"
                   ELSE IF bits_required <= 24 THEN "I24"
                   ELSE IF bits_required <= 32 THEN "I32"
                   ELSE IF bits_required <= 48 THEN "I48" ELSE "I64"
         IN SerialValue(ty, to_be_bytes(v, Width(ty)))

\* a typed value handed to the serializer: serialize_none, serialize_i64,
\* serialize_bytes, serialize_str
NullValue == [kind |-> "null"]
Integer(v) == [kind |-> "int", value |-> v]
Blob(bytes) == [kind |-> "blob", bytes |-> bytes]
Text(bytes) == [kind |-> "text", bytes |-> bytes]
serialize(x) ==
    CASE x.kind = "null" -> SerialValue("Null", << >>)
      [] x.kind = "int" -> serialize_i64(x.value)
      [] x.kind = "blob" -> SerialValue("Blob", x.bytes)
      [] x.kind = "text" -> SerialValue("Text", x.bytes)

\* SerialValue::serial_type followed by From<SerialType> for i64
serial_type(value) ==
    CASE value.ty = "Null" -> 0 [] value.ty = "I8" -> 1 [] value.ty = "I16" -> 2
      [] value.ty = "I24" -> 3 [] value.ty = "I32" -> 4 [] value.ty = "I48" -> 5
      [] value.ty = "I64" -> 6 [] value.ty = "F64" -> 7 [] value.ty = "Zero" -> 8
      [] value.ty = "One" -> 9
      [] value.ty = "Blob" -> Len(value.bytes) * 2 + 12
      [] value.ty = "Text" -> Len(value.bytes) * 2 + 13

\* the header length written once, never re-encoded
header_varint_once(len, size, bytes) == bytes

\* From<RecordSerializer> for Vec<u8>, the loop that sizes the header
RECURSIVE header_varint(_, _, _)
header_varint(len, size, bytes) ==
    IF len + Len(bytes) > size
    THEN header_varint(len, len + Len(bytes), write(FromInt(len + Len(bytes))))
    ELSE bytes

\* From<RecordSerializer> for Vec<u8>
into_bytes(values) ==
    LET types == Flatten([i \in 1..Len(values) |-> write(FromInt(serial_type(values[i])))])
        prefix == header_varint(Len(types), Len(types) + 1, write(FromInt(Len(types) + 1)))
    IN prefix \o types \o Flatten([i \in 1..Len(values) |-> values[i].bytes])

\* From<i64> for SerialType: the variant, the length it announces, or a panic
SerialType_from(value) ==
    LET n == ToInt(value) IN
    IF IsNegative(value) \/ n = TOO_LARGE
    THEN [panicked |-> FALSE, ty |-> IF Bit(value, 0) = 0 THEN "Blob" ELSE "Text",
          len |-> TOO_LARGE]
    ELSE IF n \in {10, 11} THEN [panicked |-> TRUE, ty |-> "Null", len |-> 0]
    ELSE IF n <= 9
    THEN [panicked |-> FALSE,
          ty |-> <<"Null", "I8", "I16", "I24", "I32", "I48", "I64", "F64", "Zero", "One">>[n + 1],
          len |-> Width(<<"Null", "I8", "I16", "I24", "I32", "I48", "I64", "F64", "Zero", "One">>[n + 1])]
    ELSE IF n % 2 = 0 THEN [panicked |-> FALSE, ty |-> "Blob", len |-> (n - 12) \div 2]
    ELSE [panicked |-> FALSE, ty |-> "Text", len |-> (n - 13) \div 2]

\* String::from_utf8 on the texts of the model, which are ASCII
from_utf8_ok(bytes) == \A i \in 1..Len(bytes) : bytes[i] < 128

\* SerialValueIterator::next until None: types holds the rest of the header,
\* data the rest of the values
RECURSIVE collect_values(_, _, _)
collect_values(types, data, out) ==
    IF types = << >> THEN [panicked |-> FALSE, values |-> out]
    ELSE LET r == read(types) IN
         IF r.panicked THEN [panicked |-> TRUE, values |-> out]
         ELSE LET ty == SerialType_from(r.value) IN
              IF ty.panicked \/ ty.len > Len(data)
              THEN [panicked |-> TRUE, values |-> out]
              ELSE IF ty.ty = "Text" /\ ~from_utf8_ok(SubSeq(data, 1, ty.len))
              THEN [panicked |-> TRUE, values |-> out]
              ELSE collect_values(Drop(types, r.len), Drop(data, ty.len),
                                  Append(out, SerialValue(ty.ty, SubSeq(data, 1, ty.len))))

\* Record::from(data).values().collect()
values(data) ==
    LET r == read(data)
        header_len == ToInt(r.value)
    IN IF r.panicked \/ IsNegative(r.value) \/ header_len > Len(data) \/ r.len > header_len
       THEN [panicked |-> TRUE, values |-> << >>]
       ELSE collect_values(SubSeq(data, r.len + 1, header_len), Drop(data, header_len), << >>)

\* Deserializer::deserialize_any: what a decoded SerialValue is handed on as
deserialize_any(value) ==
    CASE value.ty = "Null" -> NullValue
      [] value.ty \in IntTypes -> Integer(from_be_bytes(value.bytes))
      [] value.ty = "Zero" -> Integer(ZeroBits)
      [] value.ty = "One" -> Integer(FromInt(1))
      [] value.ty = "Blob" -> Blob(value.bytes)
      [] value.ty = "Text" -> Text(value.bytes)
      [] OTHER -> [kind |-> "f64", bytes |-> value.bytes]

\* the values records are made of: integers around every width the encoder
\* chooses between, blobs and texts around the lengths where a serial type
\* needs a second varint byte
MaxValues == 2
IntWidths == {0, 1, 7, 8, 15, 16, 23, 24, 31, 32, 47, 48, 63}
Integers64 == {I64(sign, k, tail) : sign \in {0, 1}, k \in IntWidths, tail \in {"zeros", "ones"}}
Bytes(n) == [i \in 1..n |-> 65 + (i % 26)]
TypedValues ==
    {NullValue} \cup {Integer(v) : v \in Integers64}
    \cup {Blob(Bytes(n)) : n \in {0, 1, 10, 58}} \cup {Text(Bytes(n)) : n \in {0, 5, 52}}
FewValues ==
    {NullValue, Integer(I64(0, 8, "ones")), Integer(I64(1, 0, "ones")), Blob(Bytes(10)),
     Text(Bytes(5))}
Pads == {0, 30}
ValueLists ==
    {[i \in 1..pad |-> NullValue] \o tail :
        pad \in Pads, tail \in [1..1 -> TypedValues] \cup
                               UNION {[1..n -> FewValues] : n \in 0..MaxValues}}

\* records as SQLite writes them: every serial type in one byte, integers in
\* any width that holds them
StoredValues ==
    {serialize(x) : x \in TypedValues \ {Blob(Bytes(58))}}
    \cup {SerialValue("I8", <<128>>), SerialValue("I8", <<0>>), SerialValue("I16", <<0, 5>>),
          SerialValue("I64", to_be_bytes(FromInt(1), 8))}
stored_record(vals) ==
    <<1 + Len(vals)>> \o [i \in 1..Len(vals) |-> serial_type(vals[i])]
        \o Flatten([i \in 1..Len(vals) |-> vals[i].bytes])
StoredRecords ==
    {stored_record(vals) :
        vals \in [1..1 -> StoredValues] \cup
                 UNION {[1..n -> {serialize(x) : x \in FewValues}] : n \in 0..MaxValues}}

RecordInit ==
    /\ InitCommon /\ DB_new
    /\ btree = EmptyMap /\ rootpage = 0
    /\ entries = NoEntries /\ query = NoQuery /\ yielded = << >> /\ ended = FALSE
    /\ ledger = NoLedger /\ saved = NoSave
    /\ \/ \E V \in ValueLists : codec = [stage |-> "values", values |-> V]
       \/ \E B \in StoredRecords : codec = [stage |-> "stored", bytes |-> B]

\* value.serialize(&mut serializer) for every value, then Vec::from(serializer)
encode(V, checked) ==
    IF checked /\ \E i \in 1..Len(V) : V[i].kind = "int" /\ abs_overflows(V[i].value)
    THEN [panicked |-> TRUE, bytes |-> << >>]
    ELSE [panicked |-> FALSE, bytes |-> into_bytes([i \in 1..Len(V) |-> serialize(V[i])])]

\* Record::from(bytes).values() handed to the visitor value by value
decode(B) ==
    LET r == values(B) IN
    [panicked |-> r.panicked,
     values |-> [i \in 1..Len(r.values) |-> deserialize_any(r.values[i])]]

\* a list of values is encoded
RecordEncode ==
    /\ codec.stage = "values" /\ ~panicked
    /\ \E checked \in BOOLEAN : \E r \in {encode(codec.values, checked)} :
        /\ panicked' = r.panicked
        /\ codec' = [stage |-> "encoded", values |-> codec.values, bytes |-> r.bytes]
    /\ CodecFrame

\* and decoded again
RecordDecode ==
    /\ codec.stage = "encoded" /\ ~panicked
    /\ \E r \in {decode(codec.bytes)} :
        /\ panicked' = r.panicked
        /\ codec' = [stage |-> "decoded", values |-> codec.values, bytes |-> codec.bytes,
                     decoded |-> r.values]
    /\ CodecFrame

\* a stored record is decoded
StoredDecode ==
    /\ codec.stage = "stored" /\ ~panicked
    /\ \E r \in {decode(codec.bytes)} :
        /\ panicked' = r.panicked
        /\ codec' = [stage |-> "loaded", bytes |-> codec.bytes, values |-> r.values]
    /\ CodecFrame

\* and its values are encoded again
StoredEncode ==
    /\ codec.stage = "loaded" /\ ~panicked
    /\ \E checked \in BOOLEAN : \E r \in {encode(codec.values, checked)} :
        /\ panicked' = r.panicked
        /\ codec' = [stage |-> "rewritten", bytes |-> codec.bytes, values |-> codec.values,
                     rewritten |-> r.bytes]
    /\ CodecFrame

RecordStep == RecordEncode \/ RecordDecode \/ StoredDecode \/ StoredEncode

\* records encoded and decoded, both ways round
RecordSpec == RecordInit /\ [][RecordStep]_vars

\* ------------------------------------------------- files that break the format
\* the header fields Header::validate looks at and the files put to the test
\* vary; the other validated fields hold their required values
HEADER_STRING == "SQLite format 3"
FormatHeader(magic, ps, wv, rv, maxf) ==
    [header_string |-> magic, page_size |-> ps, write_version |-> wv, read_version |-> rv,
     reserved_space |-> 0, max_payload_fraction |-> maxf, min_payload_fraction |-> 32,
     leaf_payload_fraction |-> 32, schema_format |-> 4,
     largest_root_btree_page_number |-> 0, database_text_encoding |-> 1,
     incremental_vacuum_mode |-> 0]
FormatHeaders ==
    {FormatHeader(magic, ps, wv, rv, maxf) :
        magic \in {HEADER_STRING, "SQLite format 4"}, ps \in {1, 2, 3, 16},
        wv \in {1, 2}, rv \in {1, 3}, maxf \in {64, 65}}

is_power_of_two(n) == \E k \in 0..16 : n = Pow2(k)

\* Header::validate: TRUE when every assertion passes
validate(h) ==
    /\ h.header_string = HEADER_STRING
    /\ is_power_of_two(h.page_size * PAGE_SIZE_UNIT)
    /\ h.page_size * PAGE_SIZE_UNIT >= 512 /\ h.page_size * PAGE_SIZE_UNIT <= 65536
    /\ h.write_version = 1 /\ h.read_version = 1
    /\ h.reserved_space = 0
    /\ h.max_payload_fraction = 64 /\ h.min_payload_fraction = 32
    /\ h.leaf_payload_fraction = 32
    /\ h.schema_format = 4 /\ h.largest_root_btree_page_number = 0
    /\ h.database_text_encoding = 1 /\ h.incremental_vacuum_mode = 0

\* Header::read on a file of file_len bytes that starts with header h
Header_read_outcome(h, file_len) ==
    IF file_len < HEADER_SIZE THEN "err"
    ELSE IF ~validate(h) THEN "panic" ELSE "ok"

\* BTreePage::new on a loaded page whose flags byte is flags
BTreePage_new_outcome(flags) == IF validate_ok(flags) THEN "ok" ELSE "panic"

\* the record of one column whose serial type is code, its value zero bytes
OneColumn(code) ==
    <<2, code>> \o [i \in 1..SerialType_from(FromInt(code)).len |-> 0]

PageFlags == {0, 1, INTERIOR_INDEX, INTERIOR_TABLE, LEAF_INDEX, LEAF_TABLE, 255}
SerialCodes == 0..15

FormatInit ==
    /\ InitCommon /\ DB_new
    /\ btree = EmptyMap /\ rootpage = 0
    /\ entries = NoEntries /\ query = NoQuery /\ yielded = << >> /\ ended = FALSE
    /\ ledger = NoLedger /\ saved = NoSave
    /\ \/ \E h \in FormatHeaders, file_len \in {HEADER_SIZE - 1, MIN_PAGE_SIZE} :
            codec = [stage |-> "file", header |-> h, file_len |-> file_len]
       \/ \E flags \in PageFlags : codec = [stage |-> "page", flags |-> flags]
       \/ \E code \in SerialCodes : codec = [stage |-> "record", bytes |-> OneColumn(code)]

\* DB::open(path)
FormatOpen ==
    /\ codec.stage = "file" /\ ~panicked
    /\ \E r \in {Header_read_outcome(codec.header, codec.file_len)} :
        /\ panicked' = (r = "panic")
        /\ codec' = [stage |-> "opened", header |-> codec.header,
                     file_len |-> codec.file_len, outcome |-> r]
    /\ CodecFrame

\* BTreePage::new(db, page_number) on a page the database holds
FormatPage ==
    /\ codec.stage = "page" /\ ~panicked
    /\ \E r \in {BTreePage_new_outcome(codec.flags)} :
        /\ panicked' = (r = "panic")
        /\ codec' = [stage |-> "page_read", flags |-> codec.flags, outcome |-> r]
    /\ CodecFrame

\* Record::from(bytes).values().collect()
FormatRecord ==
    /\ codec.stage = "record" /\ ~panicked
    /\ \E r \in {values(codec.bytes)} :
        /\ panicked' = r.panicked
        /\ codec' = [stage |-> "record_read", bytes |-> codec.bytes,
                     outcome |-> IF r.panicked THEN "panic" ELSE "ok"]
    /\ CodecFrame

FormatStep == FormatOpen \/ FormatPage \/ FormatRecord

\* files, pages and records that keep or break the format, read once
FormatSpec == FormatInit /\ [][FormatStep]_vars

\* ------------------------------------------------- ranges compared with keys
RangeInit ==
    /\ InitCommon /\ DB_new
    /\ btree = EmptyMap /\ rootpage = 0
    /\ entries = NoEntries /\ query = NoQuery /\ yielded = << >> /\ ended = FALSE
    /\ ledger = NoLedger /\ saved = NoSave
    /\ \E rg \in IndexRanges, k \in KeyValues :
        codec = [stage |-> "range", start |-> rg[1], end |-> rg[2], key |-> k]

\* range_cmp(&range, &key)
RangeCmp ==
    /\ codec.stage = "range" /\ ~panicked
    /\ codec' = [stage |-> "compared", start |-> codec.start, end |-> codec.end,
                 key |-> codec.key,
                 ordering |-> range_cmp(codec.start, codec.end, codec.key)]
    /\ UNCHANGED panicked
    /\ CodecFrame

\* one range compared with one key
RangeSpec == RangeInit /\ [][RangeCmp]_vars

\* ------------------------------------------------ interior index cells
\* U32 (big endian): its four bytes, and the number they hold
U32_bytes(n) == <<(n \div 16777216) % 256, (n \div 65536) % 256, (n \div 256) % 256, n % 256>>
U32_get(bytes) == bytes[1] * 16777216 + bytes[2] * 65536 + bytes[3] * 256 + bytes[4]

\* the bytes of a cell as the format lays it out: child, payload size, payload
InteriorIndexCell(child, payload) ==
    U32_bytes(child) \o write(FromInt(Len(payload))) \o payload

\* BTreePage::interior_index_cell on the bytes self.cell(cell_index) returns:
\* the child is read from the prefix without consuming it, consume_varint
\* then reads at the cell start, and truncate cuts what follows that varint
interior_index_cell_bytes(cell) ==
    IF Len(cell) < 4 THEN [panicked |-> TRUE, left_child |-> 0, payload |-> << >>]
    ELSE LET r == read(cell)
             rest == Drop(cell, r.len)
             payload_size == ToInt(r.value)
         IN IF r.panicked \/ IsNegative(r.value) \/ payload_size > Len(rest)
            THEN [panicked |-> TRUE, left_child |-> U32_get(cell), payload |-> << >>]
            ELSE [panicked |-> FALSE, left_child |-> U32_get(cell),
                  payload |-> SubSeq(rest, 1, payload_size)]

MaxPayload == 2
ChildNumbers == {2, 3, 300, 16777216, 33554437, 2130706433}
Payloads == UNION {[1..n -> {1, 200}] : n \in 0..MaxPayload}
\* the bytes that follow the cell on its page
Followers == {<< >>, <<9, 9>>}

CellInit ==
    /\ InitCommon /\ DB_new
    /\ btree = EmptyMap /\ rootpage = 0
    /\ entries = NoEntries /\ query = NoQuery /\ yielded = << >> /\ ended = FALSE
    /\ ledger = NoLedger /\ saved = NoSave
    /\ \E child \in ChildNumbers, payload \in Payloads, after \in Followers :
        codec = [stage |-> "cell", child |-> child, payload |-> payload,
                 bytes |-> InteriorIndexCell(child, payload) \o after]

\* page.interior_index_cell(cell_index)
CellRead ==
    /\ codec.stage = "cell" /\ ~panicked
    /\ \E r \in {interior_index_cell_bytes(codec.bytes)} :
        /\ panicked' = r.panicked
        /\ codec' = [stage |-> "cell_read", child |-> codec.child,
                     payload |-> codec.payload, bytes |-> codec.bytes,
                     left_child |-> r.left_child, read_payload |-> r.payload]
    /\ CodecFrame

\* one interior index cell read from its bytes
CellSpec == CellInit /\ [][CellRead]_vars

\* ------------------------------------------------ one leaf page written
\* insert_table_record in a build without overflow checks: the u16
\* subtraction cell_content_start - cell.len() wraps instead of panicking
insert_table_record_unchecked(page, page_number, row_id, record) ==
    LET b == page.body
        cell_len == varint_write(record.len) + varint_write(row_id) + record.len
        ptr == (b.cell_content_start + 65536 - (cell_len % 65536)) % 65536
        start == reserved(page_number) + header_size(b.flags) + b.cell_count * 2
    IN IF b.flags # LEAF_TABLE \/ ptr + cell_len > page.len \/ start + 2 > page.len
       THEN [panicked |-> TRUE, page |-> page]
       ELSE [panicked |-> FALSE,
             page |-> [page EXCEPT !.body =
                [flags |-> b.flags,
                 cell_count |-> b.cell_count + 1,
                 cell_content_start |-> ptr,
                 cells |-> Append(b.cells, [ptr |-> ptr, size |-> cell_len,
                                            row_id |-> row_id, payload |-> record])]]]

MaxCells == 3
MAX_PAGE_SIZE == 65536
LegalPageSizes == {MIN_PAGE_SIZE, 1024, MAX_PAGE_SIZE}
RecordLens == {10, 200}
PageRecords == {Record("row", "", 0, val, len) : val \in 1..2, len \in RecordLens}

\* an empty leaf table page of a legal size, as new_page and
\* BTreePageMut::empty leave it
PageInit ==
    /\ InitCommon /\ DB_new
    /\ btree = EmptyMap /\ rootpage = 0
    /\ entries = NoEntries /\ query = NoQuery /\ yielded = << >> /\ ended = FALSE
    /\ ledger = NoLedger /\ saved = NoSave
    /\ \E size \in LegalPageSizes, n \in 1..2, flags \in {LEAF_TABLE, INTERIOR_TABLE} :
        \E fresh \in {BTreePageMut_empty(flags, ZeroPage(size))} :
            codec = [stage |-> "page_mut", page_number |-> n, page |-> fresh,
                     before |-> fresh, row_id |-> 0, record |-> GarbageRecord,
                     outcome |-> "none"]

\* BTreePageMut::new(transaction, n)?.insert_table_record(row_id, record),
\* the view dropped at the end of the statement
PageInsert ==
    /\ codec.stage = "page_mut" /\ ~panicked
    /\ codec.page.body.cell_count < MaxCells
    /\ \E row_id \in 1..2, record \in PageRecords, checked \in BOOLEAN :
        \E r \in {IF checked
                  THEN insert_table_record(codec.page, codec.page_number, row_id, record)
                  ELSE insert_table_record_unchecked(codec.page, codec.page_number,
                                                     row_id, record)} :
            /\ panicked' = r.panicked
            /\ codec' = [stage |-> "page_mut", page_number |-> codec.page_number,
                         page |-> r.page, before |-> codec.page,
                         row_id |-> row_id, record |-> record,
                         \* insert_table_record ends in Ok(()) or in a panic
                         outcome |-> IF r.panicked THEN "panic" ELSE "ok"]
    /\ CodecFrame

\* records inserted into one page
PageSpec == PageInit /\ [][PageInsert]_vars

\* ------------------------------------------------ record header lengths
\* the number of times the body of the header-length loop runs
RECURSIVE header_rounds(_, _, _)
header_rounds(len, size, bytes) ==
    IF len + Len(bytes) > size
    THEN 1 + header_rounds(len, len + Len(bytes), write(FromInt(len + Len(bytes))))
    ELSE 0

MaxCodes == 40
\* numbers of serial-type code bytes: the small ones, and those around the
\* lengths where the header-length varint grows by a byte
CodeLens == (0..MaxCodes) \cup {Pow2(k) + d : k \in {12, 19, 26}, d \in (0 - 4)..1}

HeaderInit ==
    /\ InitCommon /\ DB_new
    /\ btree = EmptyMap /\ rootpage = 0
    /\ entries = NoEntries /\ query = NoQuery /\ yielded = << >> /\ ended = FALSE
    /\ ledger = NoLedger /\ saved = NoSave
    /\ \E len \in CodeLens, values_len \in {0, 5} :
        codec = [stage |-> "codes", len |-> len, values_len |-> values_len]

\* Vec::<u8>::from(serializer), up to the splice of the header length
HeaderEncode ==
    /\ codec.stage = "codes" /\ ~panicked
    /\ \E first \in {write(FromInt(codec.len + 1))} :
        codec' = [stage |-> "header", len |-> codec.len, values_len |-> codec.values_len,
                  bytes |-> header_varint(codec.len, codec.len + 1, first),
                  rounds |-> header_rounds(codec.len, codec.len + 1, first)]
    /\ UNCHANGED panicked
    /\ CodecFrame

\* SerialValueIterator::new on the record: the header length is read, the
\* type iterator is cut to it, and the value cursor skips header_len bytes
HeaderDecode ==
    /\ codec.stage = "header" /\ ~panicked
    /\ \E r \in {read(codec.bytes)} :
        LET header_len == ToInt(r.value)
            data_len == Len(codec.bytes) + codec.len + codec.values_len
        IN /\ panicked' = (r.panicked \/ IsNegative(r.value) \/ header_len > data_len
                            \/ r.len > header_len)
           /\ codec' = [stage |-> "cursor", len |-> codec.len,
                        values_len |-> codec.values_len, bytes |-> codec.bytes,
                        rounds |-> codec.rounds, header_len |-> header_len,
                        types_len |-> header_len - r.len, cursor |-> header_len]
    /\ CodecFrame

HeaderStep == HeaderEncode \/ HeaderDecode

\* the header length of one record written and read back
HeaderSpec == HeaderInit /\ [][HeaderStep]_vars

\* ---------------------------------------------------------------- claims
Dirty == txn.dirty_pages
Committed(n) == DB_page(pages, header, hasFile, disk, n).res
TxRead(n) == Transaction_page(txn, pages, header, hasFile, disk, n).res

\* C1: inside a transaction, Transaction::page(n) returns the bytes last
\* written through the dirty copy of n when n was touched by page_mut or
\* new_page (the copy started from the committed bytes and keeps every
\* earlier write), and what DB::page(n) returns otherwise.
C1_ReadYourWrites ==
    txOpen =>
        \A n \in PageNums :
            TxRead(n) = IF n \in DOMAIN shadow THEN Ok(shadow[n]) ELSE Committed(n)

C1_Witness ==
    /\ txOpen
    /\ \E n \in DOMAIN shadow :
        /\ n \in DOMAIN pages /\ pages[n] # shadow[n]
        /\ TxRead(n) = Ok(shadow[n])
    /\ \E n \in PageNums : n \notin DOMAIN shadow /\ TxRead(n).ok

\* the state a commit that returned leaves behind
PostCommit == committed.returned /\ ~txOpen
CommittedCounters ==
    /\ header.database_size = committed.txn.database_size
    /\ header.freelist_head = committed.txn.freelist_head
    /\ header.freelist_count = committed.txn.freelist_count
HeaderOnPageOne == 1 \in DOMAIN pages /\ pages[1].head = as_bytes(header)

\* C2 as stated: after commit returns, DB::page(n) returns exactly the dirty
\* bytes for every dirty n, the header counters are the transaction's, and
\* the first HEADER_SIZE bytes of page 1 are the serialised header.
C2_Original ==
    PostCommit =>
        /\ \A n \in DOMAIN committed.txn.dirty_pages :
                Committed(n) = Ok(committed.txn.dirty_pages[n])
        /\ CommittedCounters
        /\ HeaderOnPageOne

\* C2 amended: the same, except that a dirty page 1 is returned with its
\* first HEADER_SIZE bytes replaced by the serialised header.
C2_Publish ==
    PostCommit =>
        /\ \A n \in DOMAIN committed.txn.dirty_pages :
                Committed(n) =
                    Ok(IF n = 1 THEN write_to_prefix(header, committed.txn.dirty_pages[n])
                       ELSE committed.txn.dirty_pages[n])
        /\ CommittedCounters
        /\ HeaderOnPageOne

C2_Witness ==
    /\ PostCommit
    /\ 1 \in DOMAIN committed.txn.dirty_pages
    /\ committed.txn.dirty_pages[1].head # as_bytes(header)
    /\ \E n \in DOMAIN committed.txn.dirty_pages : n # 1 /\ n \notin DOMAIN committed.before

\* C3: after a commit attempt, returned or not, dirty pages are in the page
\* store only if the header counters and the header bytes of page 1 were
\* updated too.
C3_AllOrNothing ==
    (committed.attempted /\ ~txOpen) =>
        ((\E n \in DOMAIN committed.txn.dirty_pages :
                /\ n \in DOMAIN pages
                /\ (n \notin DOMAIN committed.before \/ pages[n] # committed.before[n]))
            => (CommittedCounters /\ HeaderOnPageOne))

\* C4: no step of an open transaction other than commit changes the header
\* or a page of the store, nor what DB::page returns for any page number;
\* dropping the transaction is such a step.
C4_CommittedUntouched ==
    [][(txOpen /\ ~committed'.attempted) =>
        /\ header' = header
        /\ \A n \in DOMAIN pages : n \in DOMAIN pages' /\ pages'[n] = pages[n]
        /\ \A n \in PageNums :
            DB_page(pages', header', hasFile', disk', n).res = Committed(n)]_vars

C4_Witness ==
    /\ txOpen /\ allocs > 0
    /\ \E n \in (DOMAIN Dirty) \cap (DOMAIN pages) : Dirty[n] # pages[n]

\* C5: the begin_transaction that follows a commit snapshots the counters
\* the commit wrote and reads back every page the commit published.
C5_BeginSeesCommit ==
    (txOpen /\ committed.returned) =>
        /\ txn.database_size = committed.txn.database_size
        /\ txn.freelist_head = committed.txn.freelist_head
        /\ txn.freelist_count = committed.txn.freelist_count
        /\ \A n \in DOMAIN committed.txn.dirty_pages :
                TxRead(n) =
                    Ok(IF n = 1 THEN write_to_prefix(header, committed.txn.dirty_pages[n])
                       ELSE committed.txn.dirty_pages[n])

\* C6: a commit that returns leaves the header's file change counter one
\* greater than it found it.
C6_CounterIncrements ==
    [][(txOpen /\ committed'.returned /\ ~txOpen') =>
        header'.file_change_counter = header.file_change_counter + 1]_vars

\* C7: in a transaction whose begin found the file's change counter
\* different from the in-memory one, the in-memory header is the file's and
\* every page of the store, so every page the transaction reads and has not
\* itself written, holds the file's current bytes.
C7_Invalidation ==
    (txOpen /\ invalidated) =>
        /\ header = Header_read(disk)
        /\ \A n \in DOMAIN pages : n <= Len(disk) /\ pages[n] = disk[n]
        /\ \A n \in PageNums :
            (n \notin DOMAIN Dirty /\ TxRead(n).ok) => TxRead(n).page = disk[n]

C7_Witness ==
    /\ txOpen /\ invalidated
    /\ \E n \in DOMAIN pages : pages[n].body.flags < 0

\* C8: with an empty freelist, the k-th new_page of a transaction begun at
\* database_size S returns page number S + k and a zeroed buffer of
\* page_size bytes, which is in the dirty map, and leaves the transaction's
\* database_size at S + k.
C8_NewPage ==
    (txOpen /\ returned.valid /\ txn.freelist_count = 0) =>
        /\ returned.page_number = header.database_size + allocs
        /\ returned.page = ZeroPage(page_size(header))
        /\ returned.page_number \in DOMAIN Dirty
        /\ txn.database_size = header.database_size + allocs

\* C9: DB::page(n) is a bounds error, and leaves the store alone, for n = 0
\* and for every n above the header's database_size.
C9_Bounds ==
    \A n \in PageNums :
        (n = 0 \/ n > header.database_size) =>
            LET r == DB_page(pages, header, hasFile, disk, n) IN
            r.res = BoundsError /\ r.pages = pages

\* C10: with readers interleaved in DB::page, each page number is inserted
\* into the store at most once between cache clears, VacantEntry::insert
\* never finds its key present, and every holder of a page sees the bytes
\* the store holds for it.
C10_SingleFill ==
    /\ \A n \in PageNums : inserts[n] <= 1
    /\ \A r \in Readers : pc[r] = "insert" => key[r] \notin DOMAIN pages
    /\ ~panicked
    /\ \A r \in Readers :
        (pc[r] = "done" /\ ret[r].ok) =>
            key[r] \in DOMAIN pages /\ pages[key[r]] = ret[r].page

C10_Witness ==
    \E r1, r2 \in Readers :
        /\ r1 # r2
        /\ pc[r1] = "done" /\ pc[r2] = "done"
        /\ key[r1] = key[r2] /\ ret[r1].ok /\ ret[r2].ok
        /\ inserts[key[r1]] = 1

\* a caller of DB::page holds a borrow of the stored page it was given
HoldsBorrow(r) == pc[r] = "done" /\ ret[r].ok
\* exclusive access (&mut) to the store: nobody is inside DB::page, nobody
\* holds a borrow or the write guard
Exclusive == Idle /\ rw = 0

\* C11: entry() and VacantEntry::insert never remove or replace a value
\* already in the page store; a step that does (clear_cache here) is taken
\* only with exclusive access, so every borrow handed out still refers to
\* the value the store holds.
C11_StoredValuesStay ==
    /\ [](\A r \in Readers :
            HoldsBorrow(r) => key[r] \in DOMAIN pages /\ pages[key[r]] = ret[r].page)
    /\ [][(\E n \in DOMAIN pages : n \notin DOMAIN pages' \/ pages'[n] # pages[n])
            => Exclusive]_vars

C11_Witness ==
    \E r1, r2 \in Readers :
        /\ HoldsBorrow(r1) /\ HoldsBorrow(r2)
        /\ key[r1] # key[r2]
        /\ inserts[key[r1]] = 1 /\ inserts[key[r2]] = 1
        /\ \E n \in DOMAIN pages : pages[n].body.flags < 0

\* C12: a reader asking for a page that is already in the store can take
\* its step while another reader is in the seek and read of a cold miss on
\* a different page.
C12_CachedReadersNotBlocked ==
    \A r1, r2 \in Readers :
        (r1 # r2 /\ pc[r1] \in {"lock_file", "read"} /\ pc[r2] = "idle") =>
            \A n \in DOMAIN pages : n # key[r1] => ENABLED ReaderEntry(r2, n)

\* ------------------------------------------------ claims on table scans
IterAll == Collect(btree, BTreeTableEntries_new(rootpage))

YieldedRowIds == {yielded[i].row_id : i \in 1..Len(yielded)}
\* the root is an interior page whose first child is an interior page too
ThreeLevels ==
    /\ btree[rootpage].flags = INTERIOR_TABLE
    /\ btree[btree[rootpage].cells[1].left_child].flags = INTERIOR_TABLE

\* C13: an iterator without a range yields strictly increasing row ids, on
\* trees of every depth whose cells and separators are in ascending order.
C13_RowIdsIncrease ==
    query.kind = "iter" =>
        \A i, j \in 1..Len(yielded) :
            i < j => (yielded[i].kind = "Some" /\ yielded[j].kind = "Some"
                      /\ yielded[i].row_id < yielded[j].row_id)

C13_Witness ==
    /\ query.kind = "iter" /\ ended
    /\ ThreeLevels
    /\ Len(yielded) >= 2

\* C14: an unbounded scan yields every leaf cell of the tree exactly once,
\* the cells under right-most pointers included.
C14_ScanYieldsEveryCell ==
    (query.kind = "iter" /\ ended) =>
        /\ YieldedRowIds = TreeRowIds(btree)
        /\ Len(yielded) = Cardinality(TreeRowIds(btree))

\* C15: a bounded scan does not panic and yields exactly the row ids of the
\* table that lie in the range.
InRange(r) ==
    /\ range_start(query.start).is_some => range_start(query.start).value <= r
    /\ range_end(query.end).is_some => r < range_end(query.end).value
C15_RangeYieldsExactly ==
    query.kind = "range" =>
        /\ ~panicked
        /\ ended => YieldedRowIds = {r \in TreeRowIds(btree) : InRange(r)}

\* C16: get(r) returns the row the unbounded scan yields under row id r, and
\* None when the scan yields no such row.
C16_GetMatchesIter ==
    query.kind = "get" =>
        /\ ~panicked
        /\ yielded = SelectSeq(IterAll, LAMBDA it : it.row_id = query.start.value)

\* ------------------------------------------------ claims on index scans
\* the comparator contract: Greater before the range, Equal inside, Less after
BeforeRange(c, k) ==
    \/ c.start.kind = "Included" /\ k < c.start.value
    \/ c.start.kind = "Excluded" /\ k <= c.start.value
AfterRange(c, k) ==
    \/ c.end.kind = "Included" /\ k > c.end.value
    \/ c.end.kind = "Excluded" /\ k >= c.end.value
ContractHolds(c) ==
    \A k \in 1..MaxKeys :
        partial_cmp(c, k) = IF BeforeRange(c, k) THEN "Greater"
                            ELSE IF AfterRange(c, k) THEN "Less" ELSE "Equal"

\* C17: with a comparator that keeps the contract, the index iterator does
\* not panic, yields in ascending key order, and by its end has yielded
\* exactly the leaf payloads the comparator calls Equal.
C17_IndexRangeExact ==
    (query.kind \in {"index_iter", "index_range"} /\ ContractHolds(entries.comparator)) =>
        /\ ~panicked
        /\ \A i, j \in 1..Len(yielded) : i < j => yielded[i].payload < yielded[j].payload
        /\ ended => {yielded[i].payload : i \in 1..Len(yielded)}
                    = {k \in TreeLeafKeys(btree) : partial_cmp(entries.comparator, k) = "Equal"}

\* C18: get(&k) on an index returns the entry whose sort key is k, and None
\* when the index holds no such entry.
C18_IndexGetExact ==
    query.kind = "index_get" =>
        /\ ~panicked
        /\ yielded = IF query.start.value \in TreeLeafKeys(btree) \cup TreeInteriorKeys(btree)
                     THEN <<ItemOk(0, query.start.value)>> ELSE << >>

\* ------------------------------------------------ claims on the schema layer
\* the other tables and indexes the schema table names, and their root pages
OtherRoots(T) ==
    {table_rootpage(U, NoTxn, pages, header, hasFile, disk).rootpage :
        U \in {V \in SchemaNames \ {T} :
                table_rootpage(V, NoTxn, pages, header, hasFile, disk).outcome = "ok"}}
CreatedRoots(T) == {ledger.created[T][i] : i \in 1..Len(ledger.created[T])}

\* C19: after begin_transaction, create_table::<T> and commit, table::<T>()
\* succeeds, its root page is one the transaction allocated, it is not page 1
\* nor the root of another table, and iter yields nothing.
C19_CreatedTableIsEmpty ==
    (query.kind = "table" /\ ~txOpen /\ ledger.committed
        /\ ledger.created[query.table] # << >>
        /\ \A U \in TableNames : ledger.rows[U] = << >>) =>
        /\ ~panicked /\ ~query.failed
        /\ rootpage \in CreatedRoots(query.table)
        /\ rootpage # 1
        /\ rootpage \notin OtherRoots(query.table)
        /\ yielded = << >>

\* how often a row occurs among the rows of a sequence
Occurrences(row, rows) == Cardinality({i \in 1..Len(rows) : rows[i] = row})
YieldedRows == [i \in 1..Len(yielded) |-> yielded[i].payload]

\* C20: within a transaction, after inserts into T returned Ok, iterating
\* table::<T>() through the transaction yields every inserted row, as many
\* times as it was inserted.
C20_InsertedRowsAreRead ==
    (query.kind = "table" /\ txOpen /\ ledger.rows[query.table] # << >>) =>
        /\ ~panicked /\ ~query.failed
        /\ \A row \in Rows :
            Occurrences(row, ledger.rows[query.table]) <= Occurrences(row, YieldedRows)

\* the database was created in memory, one transaction created table T and
\* nothing else, committed, and the database was then saved and opened again
SavedAfterCreating(T) ==
    /\ saved.reopened /\ saved.in_memory /\ ledger = saved.ledger
    /\ ledger.txns = 1 /\ ledger.committed /\ ~txOpen
    /\ Len(ledger.created[T]) = 1
    /\ \A U \in TableNames \ {T} : ledger.created[U] = << >>

C22_VarintRoundTrip ==
    codec.stage = "read" =>
        /\ ~panicked
        /\ codec.read_value = codec.value
        /\ codec.read_len = Len(codec.bytes)

\* C23: decoding the record that encoding a list of typed values produced
\* yields the same number of values in the same order, every integer with the
\* same numeric value, every blob and text with the same bytes; encoding and
\* decoding never abort.
C23_RecordRoundTrip ==
    /\ codec.stage = "encoded" => ~panicked
    /\ codec.stage = "decoded" => ~panicked /\ codec.decoded = codec.values

\* C24: the record produced by encoding the values a valid record decodes to
\* is no longer than that record.
C24_ReencodedNoLonger ==
    codec.stage = "rewritten" => ~panicked /\ Len(codec.rewritten) <= Len(codec.bytes)

\* what the next call of next() on the open iterator does
Upcoming ==
    IF query.kind = "iter" THEN BTreeTableEntries_next(btree, entries)
    ELSE BTreeIndexEntries_next(btree, entries)

\* C25: when next() of a table or index iterator has returned the failure to
\* load a child page, the cursor is where the following next() retries that
\* child: while the page stays unreadable the retry fails again and the
\* cursor does not move, so nothing is skipped.
C25_ErrorLeavesCursorOnChild ==
    (query.kind \in {"iter", "index_iter"} /\ ~ended /\ ~panicked
        /\ yielded # << >> /\ yielded[Len(yielded)].kind = "Err") =>
            Upcoming.item.kind = "Err" /\ Upcoming.entries = entries

\* C26: a page_mut, create_table or insert that returns an error leaves the
\* transaction's database_size, freelist_head, freelist_count and dirty pages
\* as they were before the call.
C26_FailedCallLeavesTransaction ==
    [][/\ (/\ \/ \E T \in TableNames : CreateTable(T)
                \/ Insert("a", Record("row", "", 0, 1, SchemaRecordLen))
             /\ query'.failed /\ ~panicked')
            => txn' = txn
       /\ \A n \in PageNums :
            (TxPageMut(n, FALSE)
                /\ ~page_mut(txn, pages, header, hasFile, disk, n).res.ok)
            => txn' = txn]_vars

\* C27: a violation of the on-disk format is reported as an error value and
\* never aborts the caller: open on a header that fails validation returns
\* Err, and so does the read that meets a page with an unknown B-tree flag or
\* a record with serial type 10 or 11.
C27_FormatErrorsAreReturned ==
    /\ (codec.stage = "opened" /\ ~validate(codec.header)) =>
            codec.outcome = "err" /\ ~panicked
    /\ (codec.stage = "page_read" /\ ~validate_ok(codec.flags)) =>
            codec.outcome = "err" /\ ~panicked
    /\ (codec.stage = "record_read" /\ codec.bytes[2] \in {10, 11}) =>
            codec.outcome = "err" /\ ~panicked

\* the range start..end is not inverted
ProperRange(sb, eb) ==
    (sb.kind # "Unbounded" /\ eb.kind # "Unbounded") => sb.value <= eb.value

\* C28: for a..b, a..=b, a.., ..b and ..=b and every key k, range_cmp returns
\* Greater exactly when k lies before the start of the range, Less exactly
\* when k lies past its end, and Equal exactly when the range contains k.
C28_RangeCmpLocatesKey ==
    (codec.stage = "compared" /\ ProperRange(codec.start, codec.end)) =>
        codec.ordering =
            IF BeforeRange(codec, codec.key) THEN "Greater"
            ELSE IF AfterRange(codec, codec.key) THEN "Less" ELSE "Equal"

\* the child of the root that a seek went down into
ChildTaken == IF Len(entries.stack) >= 2 THEN entries.stack[2][1] ELSE entries.page

\* C29: a table seek from an interior root never reads a cell at an index >=
\* cell_count, whatever the start row id, and goes down through the
\* right-most pointer when the start exceeds every separator of the root.
C29_SeekStaysInsidePage ==
    (query.kind \in {"range", "get"} /\ query.start.kind = "Included"
        /\ btree[rootpage].flags = INTERIOR_TABLE) =>
        /\ ~panicked
        /\ (/\ query.kind = "range" /\ yielded = << >> /\ ~ended
            /\ \A i \in 1..Len(btree[rootpage].cells) :
                    btree[rootpage].cells[i].row_id < query.start.value)
            => ChildTaken = btree[rootpage].right_most_pointer

\* C30: by the time iter_without_row_id ends it has yielded every key stored
\* in the index B-tree, in a leaf or as the separator of an interior cell,
\* exactly once.
C30_IndexIterYieldsSeparators ==
    (query.kind = "index_iter" /\ ended) =>
        /\ ~panicked /\ ~query.failed
        /\ \A k \in TreeLeafKeys(btree) \cup TreeInteriorKeys(btree) :
            Cardinality({i \in 1..Len(yielded) :
                            yielded[i].kind = "Some" /\ yielded[i].payload = k}) = 1

\* C31: an interior index cell laid out as child, payload size s, payload is
\* read back as that child and exactly the s payload bytes after the varint.
C31_InteriorIndexCellReadsPayload ==
    codec.stage = "cell_read" =>
        /\ ~panicked
        /\ codec.left_child = codec.child
        /\ codec.read_payload = codec.payload

\* the start of the cell content area, a stored zero standing for 65536
ContentStart(page) ==
    IF page.body.cell_content_start = 0 THEN MAX_PAGE_SIZE
    ELSE page.body.cell_content_start
CellLen(row_id, record) == varint_write(record.len) + varint_write(row_id) + record.len
\* insert_table_record has just been called on a leaf table page
InsertCalled == codec.stage = "page_mut" /\ codec.outcome # "none"
JustInserted == InsertCalled /\ codec.before.body.flags = LEAF_TABLE

\* C32: on a leaf table page of a legal size holding c cells, after
\* insert_table_record(r, rec) a read view has c+1 cells, cell c is (r, rec),
\* the cells before it are unchanged, and cell_content_start is lower by the
\* length of the new cell.
C32_InsertAppendsCell ==
    JustInserted =>
        LET now == BTreePage_read(codec.page, codec.page_number)
            was == BTreePage_read(codec.before, codec.page_number)
            c == Len(was.cells)
        IN /\ ~panicked
           /\ Len(now.cells) = c + 1
           /\ now.cells[c + 1] = [row_id |-> codec.row_id, payload |-> codec.record]
           /\ \A i \in 1..c : now.cells[i] = was.cells[i]
           /\ ContentStart(codec.page) =
                ContentStart(codec.before) - CellLen(codec.row_id, codec.record)

\* the first byte after the cell pointer array of a page
PointersEnd(page, page_number) ==
    reserved(page_number) + header_size(page.body.flags) + 2 * page.body.cell_count
\* the new cell and its pointer fit in the free space of the page
Fits(page, page_number, row_id, record) ==
    ContentStart(page) - CellLen(row_id, record) >= PointersEnd(page, page_number) + 2

\* C33: after any inserts the cell content area starts after the pointer
\* array and inside the page and every cell lies inside it; an insert that
\* does not fit, or into an interior page, returns an error and leaves the
\* page unchanged.
C33_InsertKeepsLayoutOrFails ==
    InsertCalled =>
        /\ ~panicked
        /\ PointersEnd(codec.page, codec.page_number) <= ContentStart(codec.page)
        /\ ContentStart(codec.page) <= codec.page.len
        /\ \A i \in 1..Len(codec.page.body.cells) :
            LET c == codec.page.body.cells[i] IN
            c.ptr >= ContentStart(codec.page) /\ c.ptr + c.size <= codec.page.len
        /\ (\/ codec.before.body.flags # LEAF_TABLE
            \/ ~Fits(codec.before, codec.page_number, codec.row_id, codec.record))
           => codec.outcome = "err" /\ codec.page = codec.before

\* the number of bits the magnitude of a value needs
MagnitudeBits(value) ==
    BITS - leading_zeros(IF IsNegative(value) THEN wrapping_neg(value) ELSE value)

\* C34: varint::write emits nine bytes exactly when the magnitude needs 57 or
\* more bits, and otherwise the ceiling of bits_needed / 7 bytes, where
\* bits_needed = 65 - leading_zeros(|value|); 32 to 63 take one byte.
C34_VarintLength ==
    codec.stage = "written" =>
        LET bits_needed == MagnitudeBits(codec.value) + 1 IN
        Len(codec.bytes) = IF MagnitudeBits(codec.value) >= 57 THEN 9
                           ELSE (bits_needed + 6) \div 7

\* C35: for every number L of serial-type code bytes the header-length loop
\* re-encodes at most twice, the varint it emits holds L plus its own
\* length, and the decoder's value cursor starts at the first value byte.
C35_HeaderLengthCountsItself ==
    /\ codec.stage \in {"header", "cursor"} =>
        /\ codec.rounds <= 2
        /\ ToInt(read(codec.bytes).value) = codec.len + Len(codec.bytes)
    /\ codec.stage = "cursor" =>
        /\ ~panicked
        /\ codec.cursor = Len(codec.bytes) + codec.len
        /\ codec.types_len = codec.len
\* a header length that took two re-encodings has been read back
C35_Witness == codec.stage = "cursor" /\ codec.rounds = 2 /\ codec.values_len > 0

\* the pages a page points to
Children(tree, p) ==
    {tree[p].cells[i].left_child : i \in 1..Len(tree[p].cells)}
        \cup {tree[p].right_most_pointer}
\* the number of levels of the tree under page p
RECURSIVE Depth(_, _)
Depth(tree, p) ==
    IF p \notin DOMAIN tree THEN 0
    ELSE IF tree[p].flags \in {LEAF_TABLE, LEAF_INDEX} THEN 1
    ELSE 1 + Max({Depth(tree, c) : c \in Children(tree, p)})
\* an iterator has been created and is being read
Scanning == query.kind \in {"iter", "range", "index_iter", "index_range"} /\ ~panicked

\* C36: on a finite tree without cycles, for any range or comparator, the
\* next() calls of a table or index iterator reach None after finitely many
\* steps, and the stack never holds more frames than the tree has levels.
C36_ScanEndsWithinDepth ==
    /\ [](Len(entries.stack) <= Depth(btree, rootpage))
    /\ (Scanning ~> ended)
\* a ranged scan of a three-level table has yielded rows and returned None
C36_Witness ==
    /\ IsTable /\ Depth(btree, rootpage) = 3
    /\ query.kind = "range" /\ ended /\ ~query.failed
    /\ Len(yielded) >= 2

\* C37: clear_cache never changes what DB::page(n) returns for a page n of
\* the database, in memory or file-backed, also after a commit.
C37_ClearCacheKeepsPages ==
    [][ClearCache =>
        \A n \in 1..header.database_size :
            DB_page(pages', header', hasFile', disk', n).res
                = DB_page(pages, header, hasFile, disk, n).res]_vars

\* C38: across transactions on one database new_page never returns a page
\* number that holds committed data, that is, a page of the page store.
C38_NewPageIsFresh ==
    [][\A w \in Writes :
        (TxNewPage(w) /\ returned'.valid) => returned'.page_number \notin DOMAIN pages]_vars

\* the row ids of the cells written into a page, in cell order
CellRowIds(page) == [i \in 1..Len(page.body.cells) |-> page.body.cells[i].row_id]
StrictlyAscending(ids) == \A i, j \in 1..Len(ids) : i < j => ids[i] < ids[j]

\* C39: insert gives each new row a row id greater than every one in the
\* table, so after any inserts, those of create_table included, the cells of
\* a leaf carry pairwise distinct row ids in ascending order.
C39_RowIdsAreFresh ==
    /\ \A n \in DOMAIN txn.dirty_pages :
        txn.dirty_pages[n].body.flags = LEAF_TABLE
            => StrictlyAscending(CellRowIds(txn.dirty_pages[n]))
    /\ \A n \in DOMAIN pages :
        pages[n].body.flags = LEAF_TABLE => StrictlyAscending(CellRowIds(pages[n]))

\* reader r is inside DB::page, past entry()
InsidePage(r) == pc[r] \in {"vacant", "lock_file", "read", "insert"}

\* C40: among concurrent readers of DB::page the file mutex is only taken by
\* the holder of the page-store lock, both are released when page() returns,
\* on the error paths too, no reader waits for a lock that is never
\* released, and every call returns.
C40_LocksOrderedAndReleased ==
    /\ [](fmutex # 0 => rw = fmutex)
    /\ [](\A r \in Readers : pc[r] \in {"idle", "done"} => (rw # r /\ fmutex # r))
    /\ [](\A r \in Readers : pc[r] = "lock_file" => fmutex = 0)
    /\ \A r \in Readers : InsidePage(r) ~> (pc[r] = "done")
\* a reader holds both locks after another reader's read of the file failed
C40_Witness ==
    \E r1, r2 \in Readers :
        /\ pc[r1] = "done" /\ ret[r1] = IoError
        /\ pc[r2] = "read" /\ rw = r2 /\ fmutex = r2
====
